---- MODULE Spec2Model ----
(***************************************************************************)
(* The event distribution core of boluo-server (src/events): the EventLog  *)
(* (get_event_map), the EventBus registry (get_broadcast_table), the       *)
(* dispatch units spawned by Event::fire / Event::push_members, the        *)
(* backlog read Event::get_from_cache and the janitor's idle sweep.        *)
(***************************************************************************)
EXTENDS Integers, Sequences, FiniteSets, TLC

\* ---------------------------------------------------------------- bounds
MaxCalls == 2
MaxTime == 1
Capacity == 1
MaxFill == 33
MaxLogCalls == 2
MaxHbCalls == 3
MaxTicks == 2

\* ------------------------------------------------------ program constants
Lookback == 32

Mailboxes == {"m1", "m2"}
Subscribers == {"s1", "s2"}
Users == {"u1", "u2"}
LogMailbox == "m1"
NoMailbox == "none"
NoEvent == <<>>
NoPreview == <<>>
NoReply == <<>>
\* The notice RecvError::Lagged on a stream; no event has id 0.
Lagged == [id |-> 0]
NoSweep == [idle |-> {}, removed |-> {}]

\* ----------------------------------------------------------- event bodies
NewMessage == [type |-> "NEW_MESSAGE"]
Members == [type |-> "MEMBERS"]
HeartbeatMap == [type |-> "HEARTBEAT_MAP"]
MessagePreview(id, sender_id) ==
    [type |-> "MESSAGE_PREVIEW", preview |-> [id |-> id, sender_id |-> sender_id]]

\* A call of Event::heartbeat in progress: the user and the time it has read.
HeartbeatCall(user_id, t) == [type |-> "HEARTBEAT", user_id |-> user_id, now |-> t]

FireBodies == {NewMessage, MessagePreview("p1", "u1")}
LogBodies == FireBodies \cup {MessagePreview("p2", "u1"), MessagePreview("p1", "u2")}

Min(S) == CHOOSE x \in S : \A y \in S : x <= y

\* Event { mailbox, mailbox_type, timestamp, body }
Event(mailbox, timestamp, body) ==
    [mailbox |-> mailbox, mailbox_type |-> "CHANNEL", timestamp |-> timestamp, body |-> body]

\* The serialized form: camelCase keys, the body flattened under its tag.
EncodeBody(body) ==
    IF body.type = "MESSAGE_PREVIEW"
    THEN <<"type", body.type, "preview", <<"id", body.preview.id, "senderId", body.preview.sender_id>> >>
    ELSE <<"type", body.type>>

Encode(event) ==
    <<"mailbox", event.mailbox, "mailboxType", event.mailbox_type,
      "timestamp", event.timestamp>> \o EncodeBody(event.body)

\* SyncEvent::new: the event with its encoding, computed once. id stands for the
\* identity of the shared (Arc) object.
SyncEventNew(id, event) == [id |-> id, event |-> event, encoded |-> Encode(event)]

VARIABLES
    event_map,        \* EventLog: mailbox -> history (sequence of SyncEvent)
    broadcast_table,  \* EventBus registry: mailbox -> receivers of its channel
    logLock,          \* dispatch unit holding the EventLog write lock, 0 if none
    units,            \* dispatch units, in spawn order
    lockOrder,        \* unit ids in the order they acquired the EventLog write lock
    pushed,           \* unit ids whose entry was inserted with push_back
    sub,              \* subscriber -> mailbox of its receiver, NoMailbox if none
    subAt,            \* subscriber -> number of units spawned when it subscribed
    inbox,            \* subscriber -> events buffered in its receiver
    lagged,           \* subscriber -> its receiver has dropped events not yet reported
    received,         \* subscriber -> what its stream has yielded so far
    now,              \* the last value timestamp() returned
    budget,           \* calls of the producers and of the backlog that may still be made
    reply,            \* the query and the result of the last backlog read
    swept,            \* the idle groups the sweep of the last step found, and what it removed
    heartbeat_map,    \* HeartbeatTracker: mailbox -> (user -> last-seen time)
    tableLock,        \* holder of the registry's write lock: "free" or "janitor"
    store,            \* durable store: key -> timestamps of its entries
    ticks,            \* ticks of the janitor's 12-hour timer consumed so far
    clean,            \* the prune pass redis_clean: its position, keys, cutoff and requests
    db,               \* the database: message rows, channel rows, memberships and roles
    response          \* the handler and the outcome of the last HTTP request

vars == <<event_map, broadcast_table, logLock, units, lockOrder, pushed, sub, subAt,
          inbox, lagged, received, now, budget, reply, swept,
          heartbeat_map, tableLock, store, ticks, clean, db, response>>

webVars == <<db, response>>
auxVars == <<heartbeat_map, tableLock, store, ticks, clean, webVars>>

logVars == <<event_map, logLock, lockOrder, pushed>>
busVars == <<broadcast_table, sub, subAt, inbox, lagged, received>>

\* ---------------------------------------------------------------- EventLog
PreviewId(body) ==
    IF body.type = "MESSAGE_PREVIEW" THEN <<body.preview.id, body.preview.sender_id>>
    ELSE NoPreview

IsPreviewOf(e, key) ==
    /\ e.event.body.type = "MESSAGE_PREVIEW"
    /\ e.event.body.preview.id = key[1]
    /\ e.event.body.preview.sender_id = key[2]

\* A lookback that is one entry short.
FindPreviewShort(events, key) ==
    LET n == Len(events)
        k == IF n < Lookback - 1 THEN n ELSE Lookback - 1
        found == {i \in 0..(k - 1) : IsPreviewOf(events[n - i], key)}
    IN  IF found = {} THEN -1 ELSE Min(found)

\* events.iter().rev().enumerate().take(32).find(..): the reverse index of the
\* most recent matching preview among the last 32 entries, -1 if there is none.
FindPreview(events, key) ==
    LET n == Len(events)
        k == IF n < Lookback THEN n ELSE Lookback
        found == {i \in 0..(k - 1) : IsPreviewOf(events[n - i], key)}
    IN  IF found = {} THEN -1 ELSE Min(found)

\* An insertion that uses the reverse index as the index.
InsertWrongIndex(events, event) ==
    LET key == PreviewId(event.event.body)
        n == Len(events)
        k == IF n < Lookback THEN n ELSE Lookback
        found == IF key = NoPreview THEN {}
                 ELSE {i \in 0..(k - 1) : IsPreviewOf(events[n - i], key)}
    IN  IF found # {} THEN [events EXCEPT ![Min(found) + 1] = event]
        ELSE Append(events, event)

\* An insertion that pushes to the front.
InsertFront(events, event) ==
    LET key == PreviewId(event.event.body)
        n == Len(events)
        k == IF n < Lookback THEN n ELSE Lookback
        found == IF key = NoPreview THEN {}
                 ELSE {i \in 0..(k - 1) : IsPreviewOf(events[n - i], key)}
    IN  IF found # {} THEN [events EXCEPT ![n - Min(found)] = event]
        ELSE <<event>> \o events

\* An insertion without coalescing: every event becomes a new last entry.
InsertAppending(events, event) == Append(events, event)

\* An insertion into a bounded history: the oldest entry makes room for the
\* new one.
InsertBounded(events, event) ==
    IF Len(events) >= 1 THEN Append(Tail(events), event) ELSE Append(events, event)

\* The insertion of async_fire into an existing history.
Insert(events, event) ==
    LET key == PreviewId(event.event.body)
        i == IF key = NoPreview THEN -1 ELSE FindPreview(events, key)
    IN  IF i # -1 THEN [events EXCEPT ![Len(events) - i] = event]
        ELSE Append(events, event)

\* An insertion that stores a second encoding, made after the first.
AppendedReencoded(map, mailbox, event) ==
    LET again == SyncEventNew(event.id, [event.event EXCEPT !.timestamp = @ + 1])
    IN  IF mailbox \in DOMAIN map
        THEN [map EXCEPT ![mailbox] = Append(map[mailbox], again)]
        ELSE [m \in DOMAIN map \cup {mailbox} |-> IF m = mailbox THEN <<again>> ELSE map[m]]

\* An insertion that is skipped when the mailbox has no broadcast group.
AppendedIfListened(map, mailbox, event) ==
    IF mailbox \notin DOMAIN broadcast_table THEN map
    ELSE IF mailbox \in DOMAIN map
    THEN [map EXCEPT ![mailbox] = Insert(map[mailbox], event)]
    ELSE [m \in DOMAIN map \cup {mailbox} |-> IF m = mailbox THEN <<event>> ELSE map[m]]

\* The whole event_map after async_fire's insertion.
Appended(map, mailbox, event) ==
    IF mailbox \in DOMAIN map
    THEN [map EXCEPT ![mailbox] = Insert(map[mailbox], event)]
    ELSE [m \in DOMAIN map \cup {mailbox} |-> IF m = mailbox THEN <<event>> ELSE map[m]]

\* A backlog read that also skips the entries stamped exactly `after`.
RECURSIVE SkipWhileUpTo(_, _)
SkipWhileUpTo(events, after) ==
    IF events = <<>> THEN <<>>
    ELSE IF Head(events).event.timestamp <= after THEN SkipWhileUpTo(Tail(events), after)
    ELSE events

\* Event::get_from_cache: skip_while(|event| event.event.timestamp < after)
RECURSIVE SkipWhile(_, _)
SkipWhile(events, after) ==
    IF events = <<>> THEN <<>>
    ELSE IF Head(events).event.timestamp < after THEN SkipWhile(Tail(events), after)
    ELSE events

\* Event::get_from_cache
GetFromCache(map, mailbox, after) ==
    IF mailbox \in DOMAIN map
    THEN LET kept == SkipWhile(map[mailbox], after)
         IN  [i \in 1..Len(kept) |-> kept[i].encoded]
    ELSE <<>>

\* ---------------------------------------------------------------- EventBus
ReceiverCount(table, mailbox) == Cardinality(table[mailbox])

\* One receiver's buffer after a send: bounded, the oldest entry is dropped.
Buffered(queue, event) ==
    IF Len(queue) < Capacity THEN Append(queue, event)
    ELSE Append(Tail(queue), event)

\* A send that reaches the members of every group.
SendEverywhere(table, boxes, mailbox, event) ==
    IF mailbox \in DOMAIN table
    THEN [s \in Subscribers |->
            IF \E m \in DOMAIN table : s \in table[m] THEN Buffered(boxes[s], event)
            ELSE boxes[s]]
    ELSE boxes

\* A send that fails for everyone when one member's buffer is full.
SendUnlessFull(table, boxes, mailbox, event) ==
    IF mailbox \in DOMAIN table /\ \A s \in table[mailbox] : Len(boxes[s]) < Capacity
    THEN [s \in Subscribers |->
            IF s \in table[mailbox] THEN Append(boxes[s], event) ELSE boxes[s]]
    ELSE boxes

\* Event::send: the inboxes after tx.send(event) on the mailbox's channel.
Send(table, boxes, mailbox, event) ==
    IF mailbox \in DOMAIN table
    THEN [s \in Subscribers |->
            IF s \in table[mailbox] THEN Buffered(boxes[s], event) ELSE boxes[s]]
    ELSE boxes

SendLag(table, boxes, flags, mailbox) ==
    IF mailbox \in DOMAIN table
    THEN [s \in Subscribers |->
            IF s \in table[mailbox] /\ Len(boxes[s]) >= Capacity THEN TRUE ELSE flags[s]]
    ELSE flags

\* A sweep with the test inverted.
RetainedIdle(table) ==
    LET keep == {m \in DOMAIN table : Cardinality(table[m]) = 0}
    IN  [m \in keep |-> table[m]]

\* broadcast_table.retain(|_, v| v.receiver_count() != 0)
Retained(table) ==
    LET keep == {m \in DOMAIN table : ReceiverCount(table, m) # 0}
    IN  [m \in keep |-> table[m]]

\* A map without keys: HashMap::new().
EmptyMap == [m \in {} |-> <<>>]

\* --------------------------------------------------------- HeartbeatTracker
\* HashMap::insert and HashMap::remove on one mailbox's map.
Inserted(map, key, value) ==
    [k \in DOMAIN map \cup {key} |-> IF k = key THEN value ELSE map[k]]

Removed(map, key) == [k \in DOMAIN map \ {key} |-> map[k]]

\* A heartbeat that always starts the mailbox's map afresh.
HeartbeatedFresh(map, mailbox, user_id, t) ==
    [m \in DOMAIN map \cup {mailbox} |->
        IF m = mailbox THEN Inserted(Removed(EmptyMap, user_id), user_id, t) ELSE map[m]]

\* Event::heartbeat under the map's lock.
Heartbeated(map, mailbox, user_id, t) ==
    IF mailbox \in DOMAIN map
    THEN [map EXCEPT ![mailbox] = Inserted(map[mailbox], user_id, t)]
    ELSE [m \in DOMAIN map \cup {mailbox} |->
            IF m = mailbox THEN Inserted(Removed(EmptyMap, user_id), user_id, t)
            ELSE map[m]]

\* ------------------------------------------------------------------- Init
InitBus ==
    /\ broadcast_table = EmptyMap
    /\ sub = [s \in Subscribers |-> NoMailbox]
    /\ subAt = [s \in Subscribers |-> 0]
    /\ inbox = [s \in Subscribers |-> <<>>]
    /\ lagged = [s \in Subscribers |-> FALSE]
    /\ received = [s \in Subscribers |-> <<>>]

\* The state outside the event core: no heartbeat yet, the registry lock free,
\* nothing in the durable store, no timer tick, no prune pass.
NoClean == [pc |-> "idle", keys |-> <<>>, before |-> 0, requested |-> <<>>]
\* A database without rows, and no request answered yet.
NoDb == [messages |-> <<>>, channels |-> EmptyMap, owner |-> "none", space |-> {},
         admins |-> {}, members |-> {}, masters |-> {}]
NoResponse == [handler |-> "none", status |-> "none", session |-> "none"]

InitAux ==
    /\ heartbeat_map = EmptyMap
    /\ tableLock = "free"
    /\ store = EmptyMap
    /\ ticks = 0
    /\ clean = NoClean
    /\ db = NoDb
    /\ response = NoResponse

Init ==
    /\ InitAux
    /\ event_map = EmptyMap
    /\ logLock = 0
    /\ units = <<>>
    /\ lockOrder = <<>>
    /\ pushed = {}
    /\ InitBus
    /\ now = 0
    /\ budget = MaxCalls
    /\ reply = NoReply
    /\ swept = NoSweep

\* ---------------------------------------------------------------- actions
Unit(kind, mailbox, body, pc, sync) ==
    [kind |-> kind, mailbox |-> mailbox, body |-> body, pc |-> pc, sync |-> sync]

\* utils::timestamp(): the clock never runs backwards.
Timestamps == {t \in {now, now + 1} : t <= MaxTime}

\* A fire that awaits the dispatch: the caller builds the event, takes the
\* write lock and inserts.
FireInline(body, mailbox) ==
    /\ budget > 0
    /\ logLock = 0
    /\ LET u == Len(units) + 1
           e == SyncEventNew(u, Event(mailbox, now, body))
       IN  /\ units' = Append(units, Unit("fire", mailbox, body, "locked", e))
           /\ event_map' = Appended(event_map, mailbox, e)
           /\ logLock' = u
           /\ lockOrder' = Append(lockOrder, u)
           /\ pushed' = IF /\ mailbox \in DOMAIN event_map
                           /\ Len(event_map'[mailbox]) = Len(event_map[mailbox])
                        THEN pushed ELSE pushed \cup {u}
    /\ budget' = budget - 1
    /\ swept' = NoSweep
    /\ UNCHANGED auxVars
    /\ UNCHANGED <<busVars, now, reply>>

\* Event::fire: spawn(async_fire(..)) and return.
Fire(body, mailbox) ==
    /\ budget > 0
    /\ units' = Append(units, Unit("fire", mailbox, body, "spawned", NoEvent))
    /\ budget' = budget - 1
    /\ swept' = NoSweep
    /\ UNCHANGED auxVars
    /\ UNCHANGED <<logVars, busVars, now, reply>>

\* Event::push_members: spawn(fire_members(..)) and return.
PushMembers(mailbox) ==
    /\ budget > 0
    /\ units' = Append(units, Unit("members", mailbox, Members, "spawned", NoEvent))
    /\ budget' = budget - 1
    /\ swept' = NoSweep
    /\ UNCHANGED auxVars
    /\ UNCHANGED <<logVars, busVars, now, reply>>

\* Event::push_heartbeat_map up to its send: the event is built by the caller.
PushHeartbeatMap(mailbox) ==
    /\ budget > 0
    /\ \E t \in Timestamps :
          /\ now' = t
          /\ units' = Append(units, Unit("hbmap", mailbox, HeartbeatMap, "built",
                                 SyncEventNew(Len(units) + 1, Event(mailbox, t, HeartbeatMap))))
    /\ budget' = budget - 1
    /\ swept' = NoSweep
    /\ UNCHANGED auxVars
    /\ UNCHANGED <<logVars, busVars, reply>>

\* Event::heartbeat up to its request for the map's lock: the time is read.
Heartbeat(mailbox, user_id) ==
    /\ budget > 0
    /\ \E t \in Timestamps :
          /\ now' = t
          /\ units' = Append(units, Unit("heartbeat", mailbox, HeartbeatCall(user_id, t),
                                         "timed", NoEvent))
    /\ budget' = budget - 1
    /\ swept' = NoSweep
    /\ UNCHANGED auxVars
    /\ UNCHANGED <<logVars, busVars, reply>>

\* A heartbeat that also sends a Heartbeat event to the mailbox.
HeartbeatInsertNotifying(u) ==
    /\ units[u].kind = "heartbeat"
    /\ units[u].pc = "timed"
    /\ heartbeat_map' = Heartbeated(heartbeat_map, units[u].mailbox,
                                     units[u].body.user_id, units[u].body.now)
    /\ LET e == SyncEventNew(u, Event(units[u].mailbox, units[u].body.now, units[u].body))
       IN  /\ inbox' = Send(broadcast_table, inbox, units[u].mailbox, e)
           /\ lagged' = SendLag(broadcast_table, inbox, lagged, units[u].mailbox)
    /\ units' = [units EXCEPT ![u].pc = "done"]
    /\ swept' = NoSweep
    /\ UNCHANGED <<logVars, broadcast_table, sub, subAt, received, now, budget, reply,
                   tableLock, store, ticks, clean, webVars>>

\* Event::heartbeat: the lock is taken, the entry written, the call returns.
HeartbeatInsert(u) ==
    /\ units[u].kind = "heartbeat"
    /\ units[u].pc = "timed"
    /\ heartbeat_map' = Heartbeated(heartbeat_map, units[u].mailbox,
                                     units[u].body.user_id, units[u].body.now)
    /\ units' = [units EXCEPT ![u].pc = "done"]
    /\ swept' = NoSweep
    /\ UNCHANGED <<logVars, busVars, now, budget, reply, tableLock, store, ticks, clean, webVars>>

\* A dispatch unit that sends its event as soon as it is built, before the
\* insertion.
BuildSending(u) ==
    /\ units[u].kind = "fire"
    /\ units[u].pc = "spawned"
    /\ \E t \in Timestamps :
          LET e == SyncEventNew(u, Event(units[u].mailbox, t, units[u].body))
          IN  /\ now' = t
              /\ units' = [units EXCEPT ![u].pc = "built", ![u].sync = e]
              /\ inbox' = Send(broadcast_table, inbox, units[u].mailbox, e)
              /\ lagged' = SendLag(broadcast_table, inbox, lagged, units[u].mailbox)
    /\ swept' = NoSweep
    /\ UNCHANGED auxVars
    /\ UNCHANGED <<logVars, broadcast_table, sub, subAt, received, budget, reply>>

\* async_fire up to its request for the write lock: the event is built and encoded.
Build(u) ==
    /\ units[u].kind = "fire"
    /\ units[u].pc = "spawned"
    /\ \E t \in Timestamps :
          /\ now' = t
          /\ units' = [units EXCEPT ![u].pc = "built",
                          ![u].sync = SyncEventNew(u, Event(units[u].mailbox, t, units[u].body))]
    /\ swept' = NoSweep
    /\ UNCHANGED auxVars
    /\ UNCHANGED <<logVars, busVars, budget, reply>>

\* A roster read that, when it fails, still sends a snapshot.
FetchMembersSendingAnyway(u) ==
    /\ units[u].kind = "members"
    /\ units[u].pc = "spawned"
    /\ \/ \E t \in Timestamps :
             /\ now' = t
             /\ units' = [units EXCEPT ![u].pc = "built",
                             ![u].sync = SyncEventNew(u, Event(units[u].mailbox, t, Members))]
             /\ UNCHANGED <<inbox, lagged>>
       \/ LET e == SyncEventNew(u, Event(units[u].mailbox, now, Members))
          IN  /\ units' = [units EXCEPT ![u].pc = "failed"]
              /\ inbox' = Send(broadcast_table, inbox, units[u].mailbox, e)
              /\ lagged' = SendLag(broadcast_table, inbox, lagged, units[u].mailbox)
              /\ UNCHANGED now
    /\ swept' = NoSweep
    /\ UNCHANGED auxVars
    /\ UNCHANGED <<logVars, broadcast_table, sub, subAt, received, budget, reply>>

\* fire_members up to its send: the roster is read, which may fail.
FetchMembers(u) ==
    /\ units[u].kind = "members"
    /\ units[u].pc = "spawned"
    /\ \/ \E t \in Timestamps :
             /\ now' = t
             /\ units' = [units EXCEPT ![u].pc = "built",
                             ![u].sync = SyncEventNew(u, Event(units[u].mailbox, t, Members))]
       \/ /\ units' = [units EXCEPT ![u].pc = "failed"]
          /\ UNCHANGED now
    /\ swept' = NoSweep
    /\ UNCHANGED auxVars
    /\ UNCHANGED <<logVars, busVars, budget, reply>>

\* An insertion that drops the write lock before the send.
AppendEventUnlocked(u) ==
    /\ units[u].kind = "fire"
    /\ units[u].pc = "built"
    /\ logLock = 0
    /\ logLock' = 0
    /\ event_map' = Appended(event_map, units[u].mailbox, units[u].sync)
    /\ lockOrder' = Append(lockOrder, u)
    /\ pushed' = IF /\ units[u].mailbox \in DOMAIN event_map
                    /\ Len(event_map'[units[u].mailbox]) = Len(event_map[units[u].mailbox])
                 THEN pushed ELSE pushed \cup {u}
    /\ units' = [units EXCEPT ![u].pc = "locked"]
    /\ swept' = NoSweep
    /\ UNCHANGED auxVars
    /\ UNCHANGED <<busVars, now, budget, reply>>

\* An insertion that waits for every dispatch unit spawned earlier.
AppendEventInCallOrder(u) ==
    /\ units[u].kind = "fire"
    /\ units[u].pc = "built"
    /\ \A v \in 1..(u - 1) : units[v].kind = "fire" => units[v].pc \in {"locked", "done"}
    /\ logLock = 0
    /\ logLock' = u
    /\ event_map' = Appended(event_map, units[u].mailbox, units[u].sync)
    /\ lockOrder' = Append(lockOrder, u)
    /\ pushed' = IF /\ units[u].mailbox \in DOMAIN event_map
                    /\ Len(event_map'[units[u].mailbox]) = Len(event_map[units[u].mailbox])
                 THEN pushed ELSE pushed \cup {u}
    /\ units' = [units EXCEPT ![u].pc = "locked"]
    /\ swept' = NoSweep
    /\ UNCHANGED auxVars
    /\ UNCHANGED <<busVars, now, budget, reply>>

\* async_fire: the write lock is acquired and the event inserted.
AppendEvent(u) ==
    /\ units[u].kind = "fire"
    /\ units[u].pc = "built"
    /\ logLock = 0
    /\ logLock' = u
    /\ event_map' = Appended(event_map, units[u].mailbox, units[u].sync)
    /\ lockOrder' = Append(lockOrder, u)
    /\ pushed' = IF /\ units[u].mailbox \in DOMAIN event_map
                    /\ Len(event_map'[units[u].mailbox]) = Len(event_map[units[u].mailbox])
                 THEN pushed ELSE pushed \cup {u}
    /\ units' = [units EXCEPT ![u].pc = "locked"]
    /\ swept' = NoSweep
    /\ UNCHANGED auxVars
    /\ UNCHANGED <<busVars, now, budget, reply>>

\* A publish that reaches the members one at a time.
PublishOneByOne(u) ==
    /\ units[u].kind = "fire"
    /\ units[u].pc = "locked"
    /\ tableLock = "free"
    /\ LET m == units[u].mailbox
           todo == IF m \in DOMAIN broadcast_table
                   THEN {s \in broadcast_table[m] :
                           \A k \in 1..Len(received[s] \o inbox[s]) :
                               (received[s] \o inbox[s])[k].id # u}
                   ELSE {}
       IN  IF todo = {}
           THEN /\ logLock' = 0
                /\ units' = [units EXCEPT ![u].pc = "done"]
                /\ UNCHANGED <<inbox, lagged>>
           ELSE /\ \E s \in todo :
                      /\ inbox' = [inbox EXCEPT ![s] = Buffered(@, units[u].sync)]
                      /\ lagged' = [lagged EXCEPT ![s] = @ \/ Len(inbox[s]) >= Capacity]
                /\ UNCHANGED <<logLock, units>>
    /\ swept' = NoSweep
    /\ UNCHANGED auxVars
    /\ UNCHANGED <<event_map, lockOrder, pushed, broadcast_table, sub, subAt, received,
                   now, budget, reply>>

\* A publish that creates the group of a mailbox that has none.
PublishCreating(u) ==
    /\ units[u].kind = "fire"
    /\ units[u].pc = "locked"
    /\ tableLock = "free"
    /\ inbox' = Send(broadcast_table, inbox, units[u].mailbox, units[u].sync)
    /\ lagged' = SendLag(broadcast_table, inbox, lagged, units[u].mailbox)
    /\ broadcast_table' =
          [m \in DOMAIN broadcast_table \cup {units[u].mailbox} |->
              IF m \in DOMAIN broadcast_table THEN broadcast_table[m] ELSE {}]
    /\ logLock' = 0
    /\ units' = [units EXCEPT ![u].pc = "done"]
    /\ swept' = NoSweep
    /\ UNCHANGED auxVars
    /\ UNCHANGED <<event_map, lockOrder, pushed, sub, subAt, received, now, budget, reply>>

\* A publish that drops the groups on which the send found no receiver.
PublishReaping(u) ==
    /\ units[u].kind = "fire"
    /\ units[u].pc = "locked"
    /\ tableLock = "free"
    /\ inbox' = Send(broadcast_table, inbox, units[u].mailbox, units[u].sync)
    /\ lagged' = SendLag(broadcast_table, inbox, lagged, units[u].mailbox)
    /\ broadcast_table' =
          [m \in {x \in DOMAIN broadcast_table :
                    x # units[u].mailbox \/ broadcast_table[x] # {}} |-> broadcast_table[m]]
    /\ logLock' = 0
    /\ units' = [units EXCEPT ![u].pc = "done"]
    /\ swept' = NoSweep
    /\ UNCHANGED auxVars
    /\ UNCHANGED <<event_map, lockOrder, pushed, sub, subAt, received, now, budget, reply>>

\* A publish that returns with the EventLog's write lock still held.
PublishHolding(u) ==
    /\ units[u].kind = "fire"
    /\ units[u].pc = "locked"
    /\ tableLock = "free"
    /\ inbox' = Send(broadcast_table, inbox, units[u].mailbox, units[u].sync)
    /\ lagged' = SendLag(broadcast_table, inbox, lagged, units[u].mailbox)
    /\ logLock' = logLock
    /\ units' = [units EXCEPT ![u].pc = "done"]
    /\ swept' = NoSweep
    /\ UNCHANGED auxVars
    /\ UNCHANGED <<event_map, lockOrder, pushed, broadcast_table, sub, subAt, received,
                   now, budget, reply>>

\* async_fire: Event::send under the write lock, which is released on return.
Publish(u) ==
    /\ units[u].kind = "fire"
    /\ units[u].pc = "locked"
    /\ tableLock = "free"
    /\ inbox' = Send(broadcast_table, inbox, units[u].mailbox, units[u].sync)
    /\ lagged' = SendLag(broadcast_table, inbox, lagged, units[u].mailbox)
    /\ logLock' = 0
    /\ units' = [units EXCEPT ![u].pc = "done"]
    /\ swept' = NoSweep
    /\ UNCHANGED auxVars
    /\ UNCHANGED <<event_map, lockOrder, pushed, broadcast_table, sub, subAt, received,
                   now, budget, reply>>

\* A snapshot send that queues behind the EventLog's write lock.
SendDirectAfterLog(u) ==
    /\ units[u].kind \in {"members", "hbmap"}
    /\ units[u].pc = "built"
    /\ tableLock = "free"
    /\ logLock = 0
    /\ inbox' = Send(broadcast_table, inbox, units[u].mailbox, units[u].sync)
    /\ lagged' = SendLag(broadcast_table, inbox, lagged, units[u].mailbox)
    /\ units' = [units EXCEPT ![u].pc = "done"]
    /\ swept' = NoSweep
    /\ UNCHANGED auxVars
    /\ UNCHANGED <<logVars, broadcast_table, sub, subAt, received, now, budget, reply>>

\* A snapshot that is dispatched the way fire dispatches: inserted, then sent.
SendDirectStored(u) ==
    /\ units[u].kind \in {"members", "hbmap"}
    /\ units[u].pc = "built"
    /\ tableLock = "free"
    /\ logLock = 0
    /\ event_map' = Appended(event_map, units[u].mailbox, units[u].sync)
    /\ lockOrder' = Append(lockOrder, u)
    /\ pushed' = pushed \cup {u}
    /\ inbox' = Send(broadcast_table, inbox, units[u].mailbox, units[u].sync)
    /\ lagged' = SendLag(broadcast_table, inbox, lagged, units[u].mailbox)
    /\ units' = [units EXCEPT ![u].pc = "done"]
    /\ swept' = NoSweep
    /\ UNCHANGED auxVars
    /\ UNCHANGED <<logLock, broadcast_table, sub, subAt, received, now, budget, reply>>

\* fire_members / push_heartbeat_map: Event::send without the EventLog.
SendDirect(u) ==
    /\ units[u].kind \in {"members", "hbmap"}
    /\ units[u].pc = "built"
    /\ tableLock = "free"
    /\ inbox' = Send(broadcast_table, inbox, units[u].mailbox, units[u].sync)
    /\ lagged' = SendLag(broadcast_table, inbox, lagged, units[u].mailbox)
    /\ units' = [units EXCEPT ![u].pc = "done"]
    /\ swept' = NoSweep
    /\ UNCHANGED auxVars
    /\ UNCHANGED <<logVars, broadcast_table, sub, subAt, received, now, budget, reply>>

\* A backlog read that creates an empty history for a mailbox without one.
BacklogCreating(mailbox, after) ==
    /\ budget > 0
    /\ logLock = 0
    /\ reply' = [mailbox |-> mailbox, after |-> after,
                 result |-> GetFromCache(event_map, mailbox, after)]
    /\ event_map' = IF mailbox \in DOMAIN event_map THEN event_map
                    ELSE [m \in DOMAIN event_map \cup {mailbox} |->
                             IF m = mailbox THEN <<>> ELSE event_map[m]]
    /\ budget' = budget - 1
    /\ swept' = NoSweep
    /\ UNCHANGED auxVars
    /\ UNCHANGED <<logLock, lockOrder, pushed, busVars, units, now>>

\* A backlog read that waits only for a writer of its own mailbox.
BacklogPerMailbox(mailbox, after) ==
    /\ budget > 0
    /\ \A u \in 1..Len(units) : logLock = u => units[u].mailbox # mailbox
    /\ reply' = [mailbox |-> mailbox, after |-> after,
                 result |-> GetFromCache(event_map, mailbox, after)]
    /\ budget' = budget - 1
    /\ swept' = NoSweep
    /\ UNCHANGED auxVars
    /\ UNCHANGED <<logVars, busVars, units, now>>

\* Event::get_from_cache under the read lock.
Backlog(mailbox, after) ==
    /\ budget > 0
    /\ logLock = 0
    /\ reply' = [mailbox |-> mailbox, after |-> after,
                 result |-> GetFromCache(event_map, mailbox, after)]
    /\ budget' = budget - 1
    /\ swept' = NoSweep
    /\ UNCHANGED auxVars
    /\ UNCHANGED <<logVars, busVars, units, now>>

\* subscribe(mailbox): the group is created if absent, the caller becomes a member.
Subscribed(table, s, mailbox) ==
    IF mailbox \in DOMAIN table
    THEN [table EXCEPT ![mailbox] = table[mailbox] \cup {s}]
    ELSE [m \in DOMAIN table \cup {mailbox} |-> IF m = mailbox THEN {s} ELSE table[m]]

Subscribe(s, mailbox) ==
    /\ sub[s] = NoMailbox
    /\ tableLock = "free"
    /\ broadcast_table' = Subscribed(broadcast_table, s, mailbox)
    /\ sub' = [sub EXCEPT ![s] = mailbox]
    /\ subAt' = [subAt EXCEPT ![s] = Len(units)]
    /\ swept' = NoSweep
    /\ UNCHANGED auxVars
    /\ UNCHANGED <<logVars, units, inbox, lagged, received, now, budget, reply>>

\* The receiver is dropped: the group stays in the registry.
Dropped(table, s) == [m \in DOMAIN table |-> table[m] \ {s}]

Disconnect(s) ==
    /\ sub[s] # NoMailbox
    /\ broadcast_table' = Dropped(broadcast_table, s)
    /\ sub' = [sub EXCEPT ![s] = NoMailbox]
    /\ subAt' = [subAt EXCEPT ![s] = 0]
    /\ inbox' = [inbox EXCEPT ![s] = <<>>]
    /\ lagged' = [lagged EXCEPT ![s] = FALSE]
    /\ received' = [received EXCEPT ![s] = <<>>]
    /\ swept' = NoSweep
    /\ UNCHANGED auxVars
    /\ UNCHANGED <<logVars, units, now, budget, reply>>

\* The subscriber's stream yields its next item: the lag notice first.
Recv(s) ==
    /\ sub[s] # NoMailbox
    /\ \/ /\ lagged[s]
          /\ lagged' = [lagged EXCEPT ![s] = FALSE]
          /\ received' = [received EXCEPT ![s] = Append(@, Lagged)]
          /\ UNCHANGED inbox
       \/ /\ ~lagged[s]
          /\ inbox[s] # <<>>
          /\ received' = [received EXCEPT ![s] = Append(@, Head(inbox[s]))]
          /\ inbox' = [inbox EXCEPT ![s] = Tail(@)]
          /\ UNCHANGED lagged
    /\ swept' = NoSweep
    /\ UNCHANGED auxVars
    /\ UNCHANGED <<logVars, units, broadcast_table, sub, subAt, now, budget, reply>>

\* A sweep that takes its turn after the prune pass: it does not run while a
\* pass is clearing.
SweepAfterPrune ==
    /\ clean.pc # "clearing"
    /\ tableLock = "free"
    /\ broadcast_table' = Retained(broadcast_table)
    /\ swept' = [idle |-> {m \in DOMAIN broadcast_table : \A s \in Subscribers : sub[s] # m},
                 removed |-> DOMAIN broadcast_table \ DOMAIN broadcast_table']
    /\ UNCHANGED <<logVars, units, sub, subAt, inbox, lagged, received, now, budget, reply>>
    /\ UNCHANGED auxVars

\* periodical_cleaner: one tick of the 5-minute idle sweep.
Sweep ==
    /\ tableLock = "free"
    /\ broadcast_table' = Retained(broadcast_table)
    /\ swept' = [idle |-> {m \in DOMAIN broadcast_table : \A s \in Subscribers : sub[s] # m},
                 removed |-> DOMAIN broadcast_table \ DOMAIN broadcast_table']
    /\ UNCHANGED <<logVars, units, sub, subAt, inbox, lagged, received, now, budget, reply>>
    /\ UNCHANGED auxVars

\* periodical_cleaner: a tick of the idle sweep has taken the registry's write lock.
SweepBegin ==
    /\ tableLock = "free"
    /\ tableLock' = "janitor"
    /\ swept' = NoSweep
    /\ UNCHANGED <<logVars, busVars, units, now, budget, reply, heartbeat_map, store,
                   ticks, clean, webVars>>

\* A sweep that, holding the registry's write lock, waits for the EventLog lock
\* before it retains.
SweepEndReadingLog ==
    /\ tableLock = "janitor"
    /\ logLock = 0
    /\ broadcast_table' = Retained(broadcast_table)
    /\ swept' = [idle |-> {m \in DOMAIN broadcast_table : \A s \in Subscribers : sub[s] # m},
                 removed |-> DOMAIN broadcast_table \ DOMAIN broadcast_table']
    /\ tableLock' = "free"
    /\ UNCHANGED <<logVars, units, sub, subAt, inbox, lagged, received, now, budget, reply,
                   heartbeat_map, store, ticks, clean, webVars>>

\* A sweep that also drops the history of every mailbox whose group it removes.
SweepEndDroppingHistory ==
    /\ tableLock = "janitor"
    /\ broadcast_table' = Retained(broadcast_table)
    /\ event_map' = [m \in DOMAIN event_map \ (DOMAIN broadcast_table \ DOMAIN broadcast_table')
                        |-> event_map[m]]
    /\ swept' = [idle |-> {m \in DOMAIN broadcast_table : \A s \in Subscribers : sub[s] # m},
                 removed |-> DOMAIN broadcast_table \ DOMAIN broadcast_table']
    /\ tableLock' = "free"
    /\ UNCHANGED <<logLock, lockOrder, pushed, units, sub, subAt, inbox, lagged, received,
                   now, budget, reply, heartbeat_map, store, ticks, clean, webVars>>

\* periodical_cleaner: retain under the write lock, which is then dropped.
SweepEnd ==
    /\ tableLock = "janitor"
    /\ broadcast_table' = Retained(broadcast_table)
    /\ swept' = [idle |-> {m \in DOMAIN broadcast_table : \A s \in Subscribers : sub[s] # m},
                 removed |-> DOMAIN broadcast_table \ DOMAIN broadcast_table']
    /\ tableLock' = "free"
    /\ UNCHANGED <<logVars, units, sub, subAt, inbox, lagged, received, now, budget, reply,
                   heartbeat_map, store, ticks, clean, webVars>>

Next ==
    \/ \E m \in Mailboxes, b \in FireBodies : Fire(b, m)
    \/ \E m \in Mailboxes : PushMembers(m)
    \/ \E m \in Mailboxes : PushHeartbeatMap(m)
    \/ \E u \in 1..Len(units) : Build(u)
    \/ \E u \in 1..Len(units) : FetchMembers(u)
    \/ \E u \in 1..Len(units) : AppendEvent(u)
    \/ \E u \in 1..Len(units) : Publish(u)
    \/ \E u \in 1..Len(units) : SendDirect(u)
    \/ \E m \in Mailboxes, t \in 0..(MaxTime + 1) : Backlog(m, t)
    \/ \E s \in Subscribers, m \in Mailboxes : Subscribe(s, m)
    \/ \E s \in Subscribers : Disconnect(s)
    \/ \E s \in Subscribers : Recv(s)
    \/ Sweep

Spec == Init /\ [][Next]_vars

\* --------------------------------------------- the EventLog on long histories
\* A history the program reaches by firing a preview and then n messages, one
\* dispatch unit after the other, all within one millisecond; the events fired
\* from here on are stamped later.
FilledBody(i) == IF i = 1 THEN MessagePreview("p1", "u1") ELSE NewMessage

FilledUnits(n) ==
    [i \in 1..(n + 1) |->
        Unit("fire", LogMailbox, FilledBody(i), "done",
             SyncEventNew(i, Event(LogMailbox, 0, FilledBody(i))))]

InitLog ==
    /\ \E n \in 0..MaxFill :
          /\ units = FilledUnits(n)
          /\ event_map = [m \in {LogMailbox} |-> [i \in 1..(n + 1) |-> FilledUnits(n)[i].sync]]
          /\ lockOrder = [i \in 1..(n + 1) |-> i]
          /\ pushed = 1..(n + 1)
    /\ logLock = 0
    /\ InitBus
    /\ InitAux
    /\ now = MaxTime
    /\ budget = MaxLogCalls
    /\ reply = NoReply
    /\ swept = NoSweep

NextLog ==
    \/ \E b \in LogBodies : Fire(b, LogMailbox)
    \/ \E u \in 1..Len(units) : Build(u)
    \/ \E u \in 1..Len(units) : AppendEvent(u)
    \/ \E u \in 1..Len(units) : Publish(u)
    \/ \E t \in 0..(MaxTime + 1) : Backlog(LogMailbox, t)

SpecLog == InitLog /\ [][NextLog]_vars

\* ------------------------------------- the registry lock held across a sweep
\* One mailbox, one subscriber; the idle sweep holds the registry's write lock
\* between its two steps, and whoever reads the registry meanwhile waits.
NextLock ==
    \/ Fire(NewMessage, LogMailbox)
    \/ PushHeartbeatMap(LogMailbox)
    \/ \E u \in 1..Len(units) : Build(u)
    \/ \E u \in 1..Len(units) : AppendEvent(u)
    \/ \E u \in 1..Len(units) : Publish(u)
    \/ \E u \in 1..Len(units) : SendDirect(u)
    \/ Subscribe("s1", LogMailbox)
    \/ Disconnect("s1")
    \/ Recv("s1")
    \/ SweepBegin
    \/ SweepEnd

SpecLock == Init /\ [][NextLock]_vars

\* ------------------------------------------- heartbeats and member snapshots
InitHb ==
    /\ InitAux
    /\ event_map = EmptyMap
    /\ logLock = 0
    /\ units = <<>>
    /\ lockOrder = <<>>
    /\ pushed = {}
    /\ InitBus
    /\ now = 0
    /\ budget = MaxHbCalls
    /\ reply = NoReply
    /\ swept = NoSweep

NextHb ==
    \/ \E m \in Mailboxes, user_id \in Users : Heartbeat(m, user_id)
    \/ \E u \in 1..Len(units) : HeartbeatInsert(u)
    \/ \E m \in Mailboxes : PushMembers(m)
    \/ \E u \in 1..Len(units) : FetchMembers(u)
    \/ \E u \in 1..Len(units) : SendDirect(u)
    \/ Fire(NewMessage, LogMailbox)
    \/ \E u \in 1..Len(units) : Build(u)
    \/ \E u \in 1..Len(units) : AppendEvent(u)
    \/ \E u \in 1..Len(units) : Publish(u)
    \/ Subscribe("s1", LogMailbox)

SpecHb == InitHb /\ [][NextHb]_vars

\* ------------------------------------------------------- the durable store
\* Times in the store are counted in milliseconds from the start of the
\* model's clock, so an entry written before that start has a negative stamp.
Hour == 60 * 60 * 1000

\* redis_clean: let before = timestamp() - 24 * 60 * 60 * 1000
CutoffSeconds(t) == t - 24 * 60 * 60

Cutoff(t) == t - 24 * 60 * 60 * 1000

\* A key as cache::make_key(prefix, id, suffix) builds it.
MailboxKey(mailbox) == <<"mailbox", mailbox, "events">>
OtherKey == <<"session", "u1", "token">>

\* keys(b"mailbox:*")
MatchesMailbox(key) == key[1] = "mailbox"

Stamps == {0 - 25 * Hour, 0 - 24 * Hour, 0 - Hour}

\* The contents the store may have when the janitor looks at it.
Stores ==
    UNION {[K -> SUBSET Stamps] : K \in SUBSET {MailboxKey(m) : m \in Mailboxes}}
        \cup {[k \in {MailboxKey("m1"), OtherKey} |->
                  IF k = OtherKey THEN {0 - 25 * Hour} ELSE S] : S \in SUBSET Stamps}

\* clear_before(key, before): the entries stamped before the cutoff are deleted.
ClearedBefore(entries, before) == {e \in entries : e >= before}

RECURSIVE Orders(_)
\* The sequences that enumerate a set of keys, each key once.
Orders(K) ==
    IF K = {} THEN {<<>>}
    ELSE UNION {{<<k>> \o rest : rest \in Orders(K \ {k})} : k \in K}

coreVars == <<logVars, busVars, units, budget, reply, swept, heartbeat_map, tableLock, webVars>>

\* redis_clean up to its loop: the keys are enumerated, which may fail, and the
\* cutoff is computed once.
CleanStart ==
    /\ clean.pc = "idle"
    /\ \/ \E keys \in Orders({k \in DOMAIN store : MatchesMailbox(k)}), t \in Timestamps :
             /\ now' = t
             /\ clean' = [pc |-> "clearing", keys |-> keys, before |-> Cutoff(t),
                          requested |-> <<>>]
       \/ /\ clean' = [clean EXCEPT !.pc = "failed"]
          /\ UNCHANGED now
    /\ UNCHANGED <<coreVars, store, ticks>>

\* A loop that gives up at the first deletion that fails.
ClearNextAborting ==
    /\ clean.pc = "clearing"
    /\ clean.keys # <<>>
    /\ LET key == Head(clean.keys)
       IN  \E ok \in BOOLEAN :
              /\ store' = IF ok THEN [store EXCEPT ![key] = ClearedBefore(@, clean.before)]
                          ELSE store
              /\ clean' = [clean EXCEPT
                              !.pc = IF ok THEN @ ELSE "failed",
                              !.keys = IF ok THEN Tail(@) ELSE <<>>,
                              !.requested = Append(@, [key |-> key, before |-> clean.before,
                                                       ok |-> ok])]
    /\ UNCHANGED <<coreVars, now, ticks>>

\* redis_clean: one round of the loop; a failed deletion is logged and skipped.
ClearNext ==
    /\ clean.pc = "clearing"
    /\ clean.keys # <<>>
    /\ LET key == Head(clean.keys)
       IN  \E ok \in BOOLEAN :
              /\ store' = IF ok THEN [store EXCEPT ![key] = ClearedBefore(@, clean.before)]
                          ELSE store
              /\ clean' = [clean EXCEPT
                              !.keys = Tail(@),
                              !.requested = Append(@, [key |-> key, before |-> clean.before,
                                                       ok |-> ok])]
    /\ UNCHANGED <<coreVars, now, ticks>>

\* redis_clean: the loop is over, Ok(()) is returned.
CleanFinish ==
    /\ clean.pc = "clearing"
    /\ clean.keys = <<>>
    /\ clean' = [clean EXCEPT !.pc = "done"]
    /\ UNCHANGED <<coreVars, store, now, ticks>>

InitStore ==
    /\ event_map = EmptyMap
    /\ logLock = 0
    /\ units = <<>>
    /\ lockOrder = <<>>
    /\ pushed = {}
    /\ InitBus
    /\ now = 0
    /\ budget = 0
    /\ reply = NoReply
    /\ swept = NoSweep
    /\ heartbeat_map = EmptyMap
    /\ tableLock = "free"
    /\ store \in Stores
    /\ ticks = 0
    /\ clean = NoClean
    /\ db = NoDb
    /\ response = NoResponse

\* One prune pass over a store.
NextClean ==
    \/ CleanStart
    \/ ClearNext
    \/ CleanFinish

SpecClean == InitStore /\ [][NextClean]_vars

\* periodical_cleaner: a tick of the 12-hour timer; its handler is async {}.
PruneTick ==
    /\ ticks < MaxTicks
    /\ ticks' = ticks + 1
    /\ UNCHANGED <<coreVars, store, now, clean>>

\* The janitor for the process lifetime: the two timers, with subscribers
\* coming and going.
NextJanitor ==
    \/ Sweep
    \/ PruneTick
    \/ \E m \in Mailboxes : Subscribe("s1", m)
    \/ Disconnect("s1")

SpecJanitor == InitStore /\ [][NextJanitor]_vars

\* A prune pass applied to the store while the janitor's two timers run.
NextIsolation ==
    \/ CleanStart
    \/ ClearNext
    \/ CleanFinish
    \/ Sweep
    \/ PruneTick
    \/ \E m \in Mailboxes : Subscribe("s1", m)
    \/ Disconnect("s1")

SpecIsolation == InitStore /\ [][NextIsolation]_vars

\* ------------------------------------------------------- the HTTP handlers
MaxReqs == 2

\* Option<T>: None, Some(x).
None == {}
Some(x) == {x}
Unwrap(o) == CHOOSE x \in o : TRUE

NoSession == "anonymous"
Sessions == Users \cup {NoSession}
MessageIds == 1..2
Texts == {"hello", "cocona"}
Hidden == [seed |-> <<0, 0, 0, 0>>, text |-> "", entities |-> <<>>]

\* The call of a handler that fails for a reason outside the request: reading
\* the body or the query, getting a connection or opening the transaction, a
\* read, the cache, the mutating statement, the commit.
Faults == {"none", "parse", "connect", "read", "cache", "write", "commit"}

\* Message (the fields the handlers and hide touch)
Message(id, channel_id, sender_id, whisper_to_users, text) ==
    [id |-> id, channel_id |-> channel_id, sender_id |-> sender_id,
     whisper_to_users |-> whisper_to_users, text |-> text, entities |-> <<"bold">>,
     seed |-> <<1, 2, 3, 4>>, folded |-> FALSE, order_offset |-> 0, deleted |-> FALSE]

\* Message::hide
Hide(message) ==
    IF message.whisper_to_users = None THEN message
    ELSE [message EXCEPT !.seed = Hidden.seed, !.text = Hidden.text,
                         !.entities = Hidden.entities]

\* sql/get.sql's second column for a reader, as message_test observes it: a
\* master of the channel reads a whisper in full, a member who is neither a
\* master nor addressed does not; for an addressed member the column is not
\* known from the sources.
ShouldHide(message, user_id) ==
    IF <<user_id, message.channel_id>> \in db.masters THEN {FALSE}
    ELSE IF message.whisper_to_users # None
            /\ \E i \in 1..Len(Unwrap(message.whisper_to_users)) :
                  Unwrap(message.whisper_to_users)[i] = user_id
         THEN {TRUE, FALSE}
         ELSE {TRUE}

\* Message::get: the row, hidden when should_hide.unwrap_or(true).
Get(id, should_hide) ==
    IF id \in 1..Len(db.messages) /\ ~db.messages[id].deleted
    THEN Some(IF should_hide THEN Hide(db.messages[id]) ELSE db.messages[id])
    ELSE None

\* The event bodies that carry a row.
NewMessageOf(message) == [type |-> "NEW_MESSAGE", message |-> message]
MessageEdited(message) == [type |-> "MESSAGE_EDITED", message |-> message]
MessageDeleted(message_id) == [type |-> "MESSAGE_DELETED", message_id |-> message_id]
ChannelEdited(channel) == [type |-> "CHANNEL_EDITED", channel |-> channel]
ChannelDeleted == [type |-> "CHANNEL_DELETED"]

\* A handler returns: the database is as the handler leaves it, the events it
\* fired are spawned (Event::fire), the response is recorded.
Answer(handler, session, status, database, fired) ==
    /\ budget > 0
    /\ budget' = budget - 1
    /\ db' = database
    /\ response' = [handler |-> handler, status |-> status, session |-> session]
    /\ units' = units \o [i \in 1..Len(fired) |->
                            Unit(fired[i].kind, fired[i].mailbox, fired[i].body,
                                 "spawned", NoEvent)]
    /\ swept' = NoSweep
    /\ UNCHANGED <<logVars, busVars, now, reply, heartbeat_map, tableLock, store, ticks, clean>>

Fail(handler, session, status) == Answer(handler, session, status, db, <<>>)
Fired(body, mailbox) == [kind |-> "fire", mailbox |-> mailbox, body |-> body]

\* messages::handlers::send. The row is created without whisper_to_users.
messages_send(session, channel_id, name_valid, text, message_id, fault) ==
    IF session = NoSession THEN Fail("messages/send", session, "Unauthenticated")
    ELSE IF fault = "parse" THEN Fail("messages/send", session, "BadRequest")
    ELSE IF fault \in {"connect", "read"} THEN Fail("messages/send", session, "Database")
    ELSE IF <<session, channel_id>> \notin db.members THEN Fail("messages/send", session, "NoPermission")
    ELSE IF message_id # None /\ fault = "cache" THEN Fail("messages/send", session, "Cache")
    ELSE IF ~name_valid \/ text = "" THEN Fail("messages/send", session, "ValidationFail")
    ELSE IF fault = "write" THEN Fail("messages/send", session, "Database")
    ELSE LET message == Message(Len(db.messages) + 1, channel_id, session, None, text)
         IN  Answer("messages/send", session, "ok", [db EXCEPT !.messages = Append(@, message)],
                    <<Fired(NewMessageOf(Hide(message)), message.channel_id)>>)

\* An edit that fires its event before the commit.
messages_edit_firing_first(session, message_id, text, fault) ==
    IF session = NoSession THEN Fail("messages/edit", session, "Unauthenticated")
    ELSE IF fault = "parse" THEN Fail("messages/edit", session, "BadRequest")
    ELSE IF fault \in {"connect", "read"} THEN Fail("messages/edit", session, "Database")
    ELSE IF Get(message_id, TRUE) = None THEN Fail("messages/edit", session, "NotFound")
    ELSE \E should_hide \in ShouldHide(db.messages[message_id], session) :
        LET message == Unwrap(Get(message_id, should_hide))
            row     == [db.messages[message_id] EXCEPT !.text = Unwrap(text)]
            edited  == IF text # None THEN Hide(row) ELSE message
            after   == IF text # None THEN [db EXCEPT !.messages[message_id] = row] ELSE db
        IN  IF <<session, message.channel_id>> \notin db.members
            THEN Fail("messages/edit", session, "NoPermission")
            ELSE IF message.sender_id # session THEN Fail("messages/edit", session, "NoPermission")
            ELSE IF text # None /\ fault = "write" THEN Fail("messages/edit", session, "Database")
            ELSE IF fault = "commit"
                 THEN Answer("messages/edit", session, "Database", db,
                             <<Fired(MessageEdited(edited), edited.channel_id)>>)
                 ELSE Answer("messages/edit", session, "ok", after,
                             <<Fired(MessageEdited(edited), edited.channel_id)>>)

\* messages::handlers::edit. Message::edit runs only if the request names a
\* field; the event carries the row Message::edit returned, or else the row
\* Message::get returned to the sender.
messages_edit(session, message_id, text, fault) ==
    IF session = NoSession THEN Fail("messages/edit", session, "Unauthenticated")
    ELSE IF fault = "parse" THEN Fail("messages/edit", session, "BadRequest")
    ELSE IF fault \in {"connect", "read"} THEN Fail("messages/edit", session, "Database")
    ELSE IF Get(message_id, TRUE) = None THEN Fail("messages/edit", session, "NotFound")
    ELSE \E should_hide \in ShouldHide(db.messages[message_id], session) :
        LET message == Unwrap(Get(message_id, should_hide))
            row     == [db.messages[message_id] EXCEPT !.text = Unwrap(text)]
            edited  == IF text # None THEN Hide(row) ELSE message
            after   == IF text # None THEN [db EXCEPT !.messages[message_id] = row] ELSE db
        IN  IF <<session, message.channel_id>> \notin db.members
            THEN Fail("messages/edit", session, "NoPermission")
            ELSE IF message.sender_id # session THEN Fail("messages/edit", session, "NoPermission")
            ELSE IF text # None /\ fault = "write" THEN Fail("messages/edit", session, "Database")
            ELSE IF fault = "commit"
                 THEN Fail("messages/edit", session, "Database")
                 ELSE Answer("messages/edit", session, "ok", after,
                             <<Fired(MessageEdited(edited), edited.channel_id)>>)

\* messages::handlers::move_message
messages_move_message(session, message_id, order_offset, fault) ==
    IF session = NoSession THEN Fail("messages/move", session, "Unauthenticated")
    ELSE IF fault = "parse" THEN Fail("messages/move", session, "BadRequest")
    ELSE IF fault \in {"connect", "read"} THEN Fail("messages/move", session, "Database")
    ELSE IF Get(message_id, TRUE) = None THEN Fail("messages/move", session, "NotFound")
    ELSE LET message == db.messages[message_id]
             row     == [message EXCEPT !.order_offset = order_offset]
         IN  IF <<session, message.channel_id>> \notin db.members
             THEN Fail("messages/move", session, "NoPermission")
             ELSE IF <<session, message.channel_id>> \notin db.masters
                     /\ message.sender_id # session
                  THEN Fail("messages/move", session, "NoPermission")
             ELSE IF fault \in {"write", "commit"} THEN Fail("messages/move", session, "Database")
             ELSE Answer("messages/move", session, "ok", [db EXCEPT !.messages[message_id] = row],
                         <<Fired(MessageEdited(Hide(row)), row.channel_id)>>)

\* SpaceMember::get_by_channel
SpaceMemberByChannel(user_id, channel_id) ==
    IF channel_id \in DOMAIN db.channels /\ user_id \in db.space
    THEN Some([is_admin |-> user_id \in db.admins])
    ELSE None

\* messages::handlers::delete
messages_delete(session, id, fault) ==
    IF session = NoSession THEN Fail("messages/delete", session, "Unauthenticated")
    ELSE IF fault = "parse" THEN Fail("messages/delete", session, "BadRequest")
    ELSE IF fault \in {"connect", "read"} THEN Fail("messages/delete", session, "Database")
    ELSE IF Get(id, TRUE) = None THEN Fail("messages/delete", session, "NotFound")
    ELSE LET message == db.messages[id]
             space_member == SpaceMemberByChannel(session, message.channel_id)
         IN  IF space_member = None THEN Fail("messages/delete", session, "NoPermission")
             ELSE IF ~Unwrap(space_member).is_admin THEN Fail("messages/delete", session, "NoPermission")
             ELSE IF fault = "write" THEN Fail("messages/delete", session, "Database")
             ELSE Answer("messages/delete", session, "ok",
                         [db EXCEPT !.messages[id].deleted = TRUE],
                         <<Fired(MessageDeleted(message.id), message.channel_id)>>)

\* messages::handlers::toggle_fold
messages_toggle_fold(session, id, fault) ==
    IF session = NoSession THEN Fail("messages/toggle_fold", session, "Unauthenticated")
    ELSE IF fault = "parse" THEN Fail("messages/toggle_fold", session, "BadRequest")
    ELSE IF fault \in {"connect", "read"} THEN Fail("messages/toggle_fold", session, "Database")
    ELSE IF Get(id, TRUE) = None THEN Fail("messages/toggle_fold", session, "NotFound")
    ELSE LET message == db.messages[id]
             space_member == SpaceMemberByChannel(session, message.channel_id)
             row == [message EXCEPT !.folded = ~message.folded]
         IN  IF space_member = None THEN Fail("messages/toggle_fold", session, "NoPermission")
             ELSE IF message.sender_id # session /\ ~Unwrap(space_member).is_admin
                  THEN Fail("messages/toggle_fold", session, "NoPermission")
             ELSE IF fault = "write" THEN Fail("messages/toggle_fold", session, "Database")
             ELSE Answer("messages/toggle_fold", session, "ok", [db EXCEPT !.messages[id] = row],
                         <<Fired(MessageEdited(Hide(row)), row.channel_id)>>)

\* channels::handlers::admin_only, as written: a member who is an admin is
\* refused.
AdminOnly(user_id) ==
    IF user_id \notin db.space THEN "NoPermission"
    ELSE IF user_id \in db.admins THEN "NoPermission"
    ELSE "ok"

\* channels::handlers::create. The new channel is m2; Channel::create returns
\* None if it exists already. No event is fired.
channels_create(session, name_valid, name, fault) ==
    IF session = NoSession THEN Fail("channels/create", session, "Unauthenticated")
    ELSE IF fault = "parse" THEN Fail("channels/create", session, "BadRequest")
    ELSE IF ~name_valid THEN Fail("channels/create", session, "ValidationFail")
    ELSE IF fault \in {"connect", "read"} THEN Fail("channels/create", session, "Database")
    ELSE IF db.owner # session /\ AdminOnly(session) # "ok"
         THEN Fail("channels/create", session, AdminOnly(session))
    ELSE IF fault = "write" THEN Fail("channels/create", session, "Database")
    ELSE IF "m2" \in DOMAIN db.channels THEN Fail("channels/create", session, "AlreadyExists")
    ELSE IF fault = "commit" THEN Fail("channels/create", session, "Database")
    ELSE Answer("channels/create", session, "ok",
                [db EXCEPT !.channels = Inserted(@, "m2", name),
                           !.members = @ \cup {<<session, "m2">>}], <<>>)

\* channels::handlers::edit. The transaction is dropped without a commit, so
\* the statement is rolled back; no event is fired.
channels_edit(session, channel_id, name, fault) ==
    IF session = NoSession THEN Fail("channels/edit", session, "Unauthenticated")
    ELSE IF fault = "parse" THEN Fail("channels/edit", session, "BadRequest")
    ELSE IF fault \in {"connect", "read"} THEN Fail("channels/edit", session, "Database")
    ELSE IF SpaceMemberByChannel(session, channel_id) = None
         THEN Fail("channels/edit", session, "NoPermission")
    ELSE IF ~Unwrap(SpaceMemberByChannel(session, channel_id)).is_admin
         THEN Fail("channels/edit", session, "NoPermission")
    ELSE IF fault = "write" THEN Fail("channels/edit", session, "Database")
    ELSE Answer("channels/edit", session, "ok", db, <<>>)

\* channels::handlers::join
channels_join(session, id, fault) ==
    IF session = NoSession THEN Fail("channels/join", session, "Unauthenticated")
    ELSE IF fault = "parse" THEN Fail("channels/join", session, "BadRequest")
    ELSE IF fault = "read" THEN Fail("channels/join", session, "Database")
    ELSE IF id \notin DOMAIN db.channels THEN Fail("channels/join", session, "NotFound")
    ELSE IF session \notin db.space THEN Fail("channels/join", session, "NoPermission")
    ELSE IF fault = "write" THEN Fail("channels/join", session, "Database")
    ELSE Answer("channels/join", session, "ok",
                [db EXCEPT !.members = @ \cup {<<session, id>>}], <<>>)

\* channels::handlers::leave
channels_leave(session, id, fault) ==
    IF session = NoSession THEN Fail("channels/leave", session, "Unauthenticated")
    ELSE IF fault = "parse" THEN Fail("channels/leave", session, "BadRequest")
    ELSE IF fault = "write" THEN Fail("channels/leave", session, "Database")
    ELSE Answer("channels/leave", session, "ok",
                [db EXCEPT !.members = @ \ {<<session, id>>}], <<>>)

\* channels::handlers::delete
channels_delete(session, id, fault) ==
    IF session = NoSession THEN Fail("channels/delete", session, "Unauthenticated")
    ELSE IF fault = "parse" THEN Fail("channels/delete", session, "BadRequest")
    ELSE IF fault = "read" THEN Fail("channels/delete", session, "Database")
    ELSE IF id \notin DOMAIN db.channels THEN Fail("channels/delete", session, "NotFound")
    ELSE IF AdminOnly(session) # "ok" THEN Fail("channels/delete", session, AdminOnly(session))
    ELSE IF fault = "write" THEN Fail("channels/delete", session, "Database")
    ELSE Answer("channels/delete", session, "ok", [db EXCEPT !.channels = Removed(@, id)],
                <<Fired(ChannelDeleted, id)>>)

\* The databases the requests start from: channel m1 exists, u1 is in its space
\* and a member of it, and it holds no message or one message of u1, which may
\* be a whisper.
Whispers == {None, Some(<<>>), Some(<<"u2">>)}
Dbs ==
    {[messages |-> ms, channels |-> [m \in {"m1"} |-> "general"], owner |-> "u1",
      space |-> sp,
      admins |-> ad, members |-> {<<u, "m1">> : u \in sp}, masters |-> ma] :
        ms \in {<<>>} \cup {<<Message(1, "m1", "u1", w, "hello")>> : w \in Whispers},
        sp \in {{"u1"}, {"u1", "u2"}},
        ad \in {{}, {"u1"}},
        ma \in {{}, {<<"u1", "m1">>}}}

InitHandlers ==
    /\ event_map = EmptyMap
    /\ logLock = 0
    /\ units = <<>>
    /\ lockOrder = <<>>
    /\ pushed = {}
    /\ InitBus
    /\ now = 0
    /\ budget = MaxReqs
    /\ reply = NoReply
    /\ swept = NoSweep
    /\ heartbeat_map = EmptyMap
    /\ tableLock = "free"
    /\ store = EmptyMap
    /\ ticks = 0
    /\ clean = NoClean
    /\ db \in Dbs
    /\ response = NoResponse

NextHandlers ==
    \/ \E session \in Sessions, channel_id \in Mailboxes, name_valid \in BOOLEAN,
          text \in Texts \cup {""}, message_id \in {None, Some(2)}, fault \in Faults :
          messages_send(session, channel_id, name_valid, text, message_id, fault)
    \/ \E session \in Sessions, message_id \in MessageIds,
          text \in {None, Some("cocona")}, fault \in Faults :
          messages_edit(session, message_id, text, fault)
    \/ \E session \in Sessions, message_id \in MessageIds, fault \in Faults :
          messages_move_message(session, message_id, 1, fault)
    \/ \E session \in Sessions, id \in MessageIds, fault \in Faults :
          messages_delete(session, id, fault)
    \/ \E session \in Sessions, id \in MessageIds, fault \in Faults :
          messages_toggle_fold(session, id, fault)
    \/ \E session \in Sessions, name_valid \in BOOLEAN, fault \in Faults :
          channels_create(session, name_valid, "lobby", fault)
    \/ \E session \in Sessions, channel_id \in Mailboxes, fault \in Faults :
          channels_edit(session, channel_id, "lobby", fault)
    \/ \E session \in Sessions, id \in Mailboxes, fault \in Faults :
          channels_join(session, id, fault)
    \/ \E session \in Sessions, id \in Mailboxes, fault \in Faults :
          channels_leave(session, id, fault)
    \/ \E session \in Sessions, id \in Mailboxes, fault \in Faults :
          channels_delete(session, id, fault)

SpecHandlers == InitHandlers /\ [][NextHandlers]_vars

\* The janitor with its timers running: the 5-minute interval keeps firing and
\* the sweep gets the registry's write lock, which is fair. Nothing is assumed
\* of the prune pass, which may take any time or never end.
SpecJanitorLive == InitStore /\ [][NextIsolation]_vars /\ WF_vars(Sweep)

\* Every task that takes a lock, on one mailbox: dispatch units, the two
\* snapshot pushes, backlog reads, heartbeat calls, a subscriber and the sweep
\* holding the registry's write lock.
NextLocks ==
    \/ Fire(NewMessage, LogMailbox)
    \/ PushHeartbeatMap(LogMailbox)
    \/ PushMembers(LogMailbox)
    \/ Heartbeat(LogMailbox, "u1")
    \/ \E u \in 1..Len(units) : Build(u)
    \/ \E u \in 1..Len(units) : FetchMembers(u)
    \/ \E u \in 1..Len(units) : AppendEvent(u)
    \/ \E u \in 1..Len(units) : Publish(u)
    \/ \E u \in 1..Len(units) : SendDirect(u)
    \/ \E u \in 1..Len(units) : HeartbeatInsert(u)
    \/ Backlog(LogMailbox, 0)
    \/ Subscribe("s1", LogMailbox)
    \/ Disconnect("s1")
    \/ SweepBegin
    \/ SweepEnd

SpecLocks == Init /\ [][NextLocks]_vars

\* ------------------------------------------------------------ observations
Stream(s) == received[s] \o inbox[s]

EverLagged(s) == lagged[s] \/ \E i \in 1..Len(received[s]) : received[s][i] = Lagged

Ids(seq) == [i \in 1..Len(seq) |-> seq[i].id]

LockPos(u) == Min({i \in 1..Len(lockOrder) : lockOrder[i] = u})

\* Unit id -> its position in lockOrder.
LockIndex == <<>> @@ [u \in {lockOrder[k] : k \in 1..Len(lockOrder)} |-> LockPos(u)]

\* The dispatch units fired to the subscriber's mailbox after it subscribed and
\* published by now, in the order in which they acquired the write lock.
FiredSince(s) ==
    LET Keep(u) == u > subAt[s] /\ units[u].mailbox = sub[s] /\ units[u].pc = "done"
    IN  SelectSeq(lockOrder, Keep)

\* The fired events of those units on the subscriber's stream, in stream order.
StreamFired(s) ==
    LET Keep(e) == e.id > subAt[s] /\ units[e.id].kind = "fire"
    IN  Ids(SelectSeq(Stream(s), Keep))

\* C1: a subscriber that has been subscribed without interruption and whose
\* receiver never lagged has on its stream every event fired to its mailbox
\* since it subscribed and published so far, in the order in which the dispatch
\* units acquired the EventLog write lock.
C1_DeliveredInLockOrder ==
    \A s \in Subscribers :
        (sub[s] # NoMailbox /\ ~EverLagged(s)) => StreamFired(s) = FiredSince(s)

\* Two events fired after the subscription were received in lock order, which is
\* the reverse of the order of the calls to fire.
C1_Witness ==
    \E s \in Subscribers :
        /\ sub[s] # NoMailbox /\ subAt[s] = 0 /\ ~EverLagged(s)
        /\ Ids(received[s]) = <<2, 1>>
        /\ lockOrder = <<2, 1>>
        /\ units[1].kind = "fire" /\ units[2].kind = "fire"

\* ------------------------------------------------------- preview coalescing
IsPreview(e) == e.event.body.type = "MESSAGE_PREVIEW"

Window(h) == {i \in 1..Len(h) : Len(h) - i < Lookback}

\* The step in which dispatch unit u inserts its event.
Inserts(u) == u <= Len(units) /\ units[u].pc = "built" /\ units'[u].pc = "locked"

\* The position of the most recent entry of h satisfying Same, 0 if there is none.
LastPos(h, Same(_)) ==
    LET at == {i \in 1..Len(h) : Same(h[i])}
    IN  IF at = {} THEN 0 ELSE CHOOSE i \in at : \A j \in at : j <= i

OnePreviewPerKey ==
    \A m \in DOMAIN event_map :
        \A i, j \in Window(event_map[m]) :
            (i < j /\ IsPreview(event_map[m][i]) /\ IsPreview(event_map[m][j]))
                => PreviewId(event_map[m][i].event.body) # PreviewId(event_map[m][j].event.body)

CoalescesInPlace ==
    \A u \in 1..Len(units) :
        (Inserts(u) /\ units[u].mailbox \in DOMAIN event_map
                    /\ PreviewId(units[u].body) # NoPreview) =>
            LET h == event_map[units[u].mailbox]
                SameKey(e) == IsPreview(e) /\ PreviewId(e.event.body) = PreviewId(units[u].body)
                p == LastPos(h, SameKey)
            IN  (p # 0 /\ Len(h) - p < 32) =>
                    /\ event_map'[units[u].mailbox] = [h EXCEPT ![p] = units[u].sync]
                    /\ Cardinality({i \in Window(h) :
                                      SameKey(event_map'[units[u].mailbox][i])}) = 1

\* C2 (amended): coalescing is per (mailbox, preview id, sender): a preview whose
\* most recent predecessor with the same preview id and sender has fewer than 32
\* entries after it overwrites that entry in place, and the last 32 entries of a
\* history never hold two previews with the same preview id and sender.
C2_CoalescingPerKey == []OnePreviewPerKey /\ [][CoalescesInPlace]_vars

\* C2 as stated: the last 32 entries hold at most one preview per sender.
C2_Original ==
    \A m \in DOMAIN event_map :
        \A i, j \in Window(event_map[m]) :
            (i < j /\ IsPreview(event_map[m][i]) /\ IsPreview(event_map[m][j]))
                => event_map[m][i].event.body.preview.sender_id
                       # event_map[m][j].event.body.preview.sender_id

\* A preview has overwritten the first of 32 entries: 31 entries lie after it.
C2_Witness ==
    /\ LogMailbox \in DOMAIN event_map
    /\ Len(event_map[LogMailbox]) = 32
    /\ \E u \in 1..Len(units) :
          /\ u > 32 /\ units[u].pc = "done" /\ u \notin pushed
          /\ event_map[LogMailbox][1] = units[u].sync

\* C3 (amended): for previews P1 and P2 with the same preview id and the same
\* sender, P1 the most recent such entry: with 32 or more entries after P1, P2
\* is appended as the new last entry and P1 stays; with 31 or fewer, P2
\* overwrites P1 in place.
BoundaryByKey ==
    \A u \in 1..Len(units) :
        (Inserts(u) /\ units[u].mailbox \in DOMAIN event_map
                    /\ PreviewId(units[u].body) # NoPreview) =>
            LET h == event_map[units[u].mailbox]
                SameKey(e) == IsPreview(e) /\ PreviewId(e.event.body) = PreviewId(units[u].body)
                p == LastPos(h, SameKey)
            IN  /\ (p # 0 /\ Len(h) - p >= 32) =>
                        event_map'[units[u].mailbox] = Append(h, units[u].sync)
                /\ (p # 0 /\ Len(h) - p <= 31) =>
                        event_map'[units[u].mailbox] = [h EXCEPT ![p] = units[u].sync]

C3_WindowBoundary == [][BoundaryByKey]_vars

\* C3 as stated: P1 and P2 are previews of the same sender.
BoundaryBySender ==
    \A u \in 1..Len(units) :
        (Inserts(u) /\ units[u].mailbox \in DOMAIN event_map
                    /\ PreviewId(units[u].body) # NoPreview) =>
            LET h == event_map[units[u].mailbox]
                SameSender(e) ==
                    IsPreview(e) /\ e.event.body.preview.sender_id = units[u].body.preview.sender_id
                p == LastPos(h, SameSender)
            IN  /\ (p # 0 /\ Len(h) - p >= 32) =>
                        event_map'[units[u].mailbox] = Append(h, units[u].sync)
                /\ (p # 0 /\ Len(h) - p <= 31) =>
                        event_map'[units[u].mailbox] = [h EXCEPT ![p] = units[u].sync]

C3_Original == [][BoundaryBySender]_vars

\* With 32 entries after P1, P2 was appended at position 34 and P1 is unchanged.
C3_Witness ==
    /\ LogMailbox \in DOMAIN event_map
    /\ Len(event_map[LogMailbox]) = 34
    /\ event_map[LogMailbox][1] = FilledUnits(32)[1].sync
    /\ IsPreviewOf(event_map[LogMailbox][34], <<"p1", "u1">>)

\* ------------------------------------------------------------------ backlog
\* The entries with timestamp >= after, in stored order, encoded.
AtOrAfter(map, mailbox, after) ==
    IF mailbox \in DOMAIN map
    THEN LET Keep(e) == e.event.timestamp >= after
             kept == SelectSeq(map[mailbox], Keep)
         IN  [i \in 1..Len(kept) |-> kept[i].encoded]
    ELSE <<>>

\* C4: the backlog is exactly the entries with timestamp >= after, in stored
\* order, for every history and every after.
C4_BacklogFilters ==
    \A m \in Mailboxes : \A after \in 0..(MaxTime + 1) :
        GetFromCache(event_map, m, after) = AtOrAfter(event_map, m, after)

\* ------------------------------------------------------------ history order
\* C5 (amended): an entry that was pushed lies after every entry written by a
\* dispatch unit that acquired the write lock earlier; a preview that overwrote
\* takes the position of the entry it replaced.
C5_PushedAfterEarlier ==
    LET pos == LockIndex
    IN  \A m \in DOMAIN event_map :
            \A j \in {k \in 1..Len(event_map[m]) : event_map[m][k].id \in pushed} :
                \A i \in 1..Len(event_map[m]) :
                    pos[event_map[m][i].id] < pos[event_map[m][j].id] => i < j

\* C5 as stated: the positions follow the order of the lock acquisitions.
C5_Original ==
    LET pos == LockIndex
    IN  \A m \in DOMAIN event_map :
            \A i, j \in 1..Len(event_map[m]) :
                pos[event_map[m][i].id] < pos[event_map[m][j].id] => i < j

\* A preview overwrote an earlier one and a later unit pushed: the pushed entry
\* lies after the overwritten one.
C5_Witness ==
    \E m \in DOMAIN event_map :
        \E i, j \in 1..Len(event_map[m]) :
            /\ i < j
            /\ event_map[m][j].id \in pushed
            /\ event_map[m][i].id \notin pushed
            /\ LockPos(event_map[m][i].id) < LockPos(event_map[m][j].id)

\* ------------------------------------------------------------- encoded form
\* C6: what a subscriber received for an event is the encoding of that event,
\* the history entry holding the event is the same encoded object, and the
\* backlog returns the same bytes for it.
C6_OneEncodedForm ==
    \A s \in Subscribers : \A k \in 1..Len(Stream(s)) :
        LET e == Stream(s)[k]
        IN  e # Lagged =>
              /\ e.encoded = Encode(e.event)
              /\ \A m \in DOMAIN event_map : \A i \in 1..Len(event_map[m]) :
                    event_map[m][i].id = e.id =>
                        /\ event_map[m][i] = e
                        /\ GetFromCache(event_map, m, 0)[i] = e.encoded

\* A subscriber received a preview that is in the history.
C6_Witness ==
    \E s \in Subscribers : \E k \in 1..Len(received[s]) :
        /\ received[s][k] # Lagged
        /\ IsPreview(received[s][k])
        /\ \E m \in DOMAIN event_map : \E i \in 1..Len(event_map[m]) :
              event_map[m][i].id = received[s][k].id

\* -------------------------------------------------------------- total order
\* C7: two subscribers that both have two events on their streams have them in
\* the same relative order.
C7_SameRelativeOrder ==
    \A s1, s2 \in Subscribers :
        \A i, j \in 1..Len(Stream(s1)) : \A k, l \in 1..Len(Stream(s2)) :
            (/\ i < j
             /\ Stream(s1)[i] # Lagged /\ Stream(s1)[j] # Lagged
             /\ Stream(s1)[i].id = Stream(s2)[k].id
             /\ Stream(s1)[j].id = Stream(s2)[l].id) => k < l

\* Two subscribers received a fired event and a snapshot, in the same order.
C7_Witness ==
    /\ sub["s1"] = sub["s2"] /\ sub["s1"] # NoMailbox
    /\ Len(received["s1"]) = 2
    /\ received["s1"] = received["s2"]
    /\ received["s1"][1] # Lagged /\ received["s1"][2] # Lagged
    /\ units[received["s1"][1].id].kind # units[received["s1"][2].id].kind

\* ----------------------------------------------------------------- registry
\* The step in which dispatch unit u publishes.
Publishes(u) == u <= Len(units) /\ units[u].pc # "done" /\ units'[u].pc = "done"

CreatedBySubscribeOnly ==
    /\ \A u \in 1..Len(units) : Publishes(u) => broadcast_table' = broadcast_table
    /\ \A m \in Mailboxes :
          (m \notin DOMAIN broadcast_table /\ m \in DOMAIN broadcast_table') =>
              \E s \in Subscribers :
                  sub[s] = NoMailbox /\ sub'[s] = m /\ broadcast_table'[m] = {s}

\* C8 (amended): publishing to a mailbox that has no broadcast group leaves the
\* registry unchanged; a group is created only by subscribe, with the subscriber
\* as its member.
C8_PublishCreatesNoGroup == [][CreatedBySubscribeOnly]_vars

\* C8 as stated: after a publish the mailbox has a group in the registry.
C8_Original ==
    [][\A u \in 1..Len(units) :
          Publishes(u) => units[u].mailbox \in DOMAIN broadcast_table']_vars

\* A fired event was published and stored while its mailbox has no group.
C8_Witness ==
    \E u \in 1..Len(units) :
        /\ units[u].kind = "fire" /\ units[u].pc = "done"
        /\ units[u].mailbox \notin DOMAIN broadcast_table
        /\ units[u].mailbox \in DOMAIN event_map

\* C9: after an idle sweep the registry holds exactly the mailboxes that have a
\* subscriber: the sweep removed exactly the groups without one, and every
\* subscriber is always a member of its mailbox's group in the registry.
C9_SweepPostcondition ==
    /\ swept.removed = swept.idle
    /\ swept.idle # {} =>
          DOMAIN broadcast_table = {sub[s] : s \in {x \in Subscribers : sub[x] # NoMailbox}}
    /\ \A s \in Subscribers :
          sub[s] # NoMailbox =>
              sub[s] \in DOMAIN broadcast_table /\ s \in broadcast_table[sub[s]]

\* A sweep removed the idle group of m2 and kept the group of m1 with its member.
C9_Witness ==
    /\ swept.removed = {"m2"}
    /\ DOMAIN broadcast_table = {"m1"}
    /\ broadcast_table["m1"] # {}

\* C10: an entry leaves the registry only in an idle sweep, and only when it has
\* no subscriber.
C10_RemovedOnlyBySweep ==
    [][\A m \in DOMAIN broadcast_table :
          m \notin DOMAIN broadcast_table' =>
              /\ m \in swept'.removed
              /\ broadcast_table[m] = {}
              /\ \A s \in Subscribers : sub[s] # m]_vars

\* The last subscriber left and an event was published, and the group is still
\* in the registry with no member.
C10_Witness ==
    \E u \in 1..Len(units) :
        /\ units[u].pc = "done"
        /\ units[u].mailbox \in DOMAIN broadcast_table
        /\ broadcast_table[units[u].mailbox] = {}

\* ---------------------------------------------------------------------- lag
\* The members of the mailbox's group, none if it has no group.
MembersOf(mailbox) ==
    IF mailbox \in DOMAIN broadcast_table THEN broadcast_table[mailbox] ELSE {}

\* A publish reaches every member: a member whose buffer has room gets the
\* event appended and loses nothing, a member whose buffer is full loses its
\* oldest event and is marked as lagged; nobody else is touched.
LagConfined ==
    \A u \in 1..Len(units) :
        Publishes(u) =>
            \A s \in Subscribers :
                IF s \in MembersOf(units[u].mailbox)
                THEN IF Len(inbox[s]) < Capacity
                     THEN /\ inbox'[s] = Append(inbox[s], units[u].sync)
                          /\ lagged'[s] = lagged[s]
                     ELSE /\ inbox'[s] = Append(Tail(inbox[s]), units[u].sync)
                          /\ lagged'[s]
                ELSE inbox'[s] = inbox[s] /\ lagged'[s] = lagged[s]

\* The lag notice is yielded only by the stream of the subscriber that lagged.
NoticeOnOwnStream ==
    \A s \in Subscribers :
        (Len(received'[s]) = Len(received[s]) + 1
            /\ received'[s][Len(received'[s])] = Lagged) => lagged[s] /\ ~lagged'[s]

\* A dispatch unit that is about to send can take its step.
NeverBlocked ==
    \A u \in 1..Len(units) :
        /\ (units[u].kind = "fire" /\ units[u].pc = "locked") => ENABLED Publish(u)
        /\ (units[u].kind # "fire" /\ units[u].pc = "built") => ENABLED SendDirect(u)

\* C11: lag is confined to the slow subscriber: a publish gives the event to
\* every member, only a member whose own buffer is full loses its oldest event
\* and only its stream yields the lag notice, and the publishing unit is never
\* blocked by a full buffer and always completes.
C11_LagConfined == []NeverBlocked /\ [][LagConfined /\ NoticeOnOwnStream]_vars

\* Two subscribers of one mailbox: s1 received both events, s2 lost the first,
\* was told that it lagged, and holds the second.
C11_Witness ==
    /\ sub["s1"] = sub["s2"] /\ sub["s1"] # NoMailbox
    /\ Len(received["s1"]) = 2
    /\ received["s1"][1] # Lagged /\ received["s1"][2] # Lagged
    /\ received["s2"] = <<Lagged>>
    /\ inbox["s2"] = <<received["s1"][2]>>

\* ------------------------------------------------------- publish, no members
Last(seq) == seq[Len(seq)]

\* The publish step of a fired event: the unit completes and the history keeps
\* the entry it inserted; without members nothing else changes; with members
\* the event is the newest in the buffer of each of them, who are all
\* subscribers of that mailbox, and no other buffer changes.
PublishReachesMembersOnly ==
    \A u \in 1..Len(units) :
        (Publishes(u) /\ units[u].kind = "fire") =>
            LET m == units[u].mailbox
            IN  /\ units'[u].pc = "done"
                /\ logLock' = 0
                /\ event_map' = event_map
                /\ \E i \in 1..Len(event_map'[m]) : event_map'[m][i] = units[u].sync
                /\ MembersOf(m) = {} =>
                       /\ inbox' = inbox /\ lagged' = lagged /\ received' = received
                       /\ broadcast_table' = broadcast_table
                /\ \A s \in Subscribers :
                       IF s \in MembersOf(m)
                       THEN sub[s] = m /\ Last(inbox'[s]) = units[u].sync
                       ELSE inbox'[s] = inbox[s] /\ lagged'[s] = lagged[s]

\* C12: publishing to a mailbox without members is a no-op and not an error:
\* the dispatch unit completes, its history entry stays, and no subscriber of
\* another mailbox gets the event; with members the event goes to every member
\* of that mailbox and to nobody else.
C12_PublishWithoutMembers == [][PublishReachesMembersOnly]_vars

\* Unit 1 published to m1, which has no member, and its entry is in the
\* history; unit 2 published to m2, whose subscriber received that event only.
C12_Witness ==
    /\ Len(units) = 2
    /\ units[1].kind = "fire" /\ units[1].mailbox = "m1" /\ units[1].pc = "done"
    /\ units[2].kind = "fire" /\ units[2].mailbox = "m2" /\ units[2].pc = "done"
    /\ MembersOf("m1") = {}
    /\ event_map["m1"] = <<units[1].sync>>
    /\ sub["s1"] = "m2" /\ subAt["s1"] = 0
    /\ received["s1"] = <<units[2].sync>> /\ inbox["s1"] = <<>>

\* ---------------------------------------------------------- fire and forget
\* The step of a call to fire or push_members: it adds one dispatch unit that
\* has done nothing yet, and touches neither the EventLog nor the EventBus.
SpawnOnly ==
    (Len(units') = Len(units) + 1 /\ Last(units').kind \in {"fire", "members"}) =>
        /\ units' = Append(units, Unit(Last(units').kind, Last(units').mailbox,
                                       Last(units').body, "spawned", NoEvent))
        /\ logVars' = logVars
        /\ busVars' = busVars
        /\ now' = now /\ reply' = reply

\* The step in which a dispatch unit fails changes that unit alone.
FailureStaysInUnit ==
    \A u \in 1..Len(units) :
        (units[u].pc # "failed" /\ units'[u].pc = "failed") =>
            /\ units' = [units EXCEPT ![u].pc = "failed"]
            /\ logVars' = logVars
            /\ busVars' = busVars
            /\ budget' = budget /\ reply' = reply

\* A producer that may still call is never made to wait: not for the EventLog
\* lock, not for a group, not for a subscriber.
CallNeverWaits ==
    budget > 0 =>
        /\ \A m \in Mailboxes, b \in FireBodies : ENABLED Fire(b, m)
        /\ \A m \in Mailboxes : ENABLED PushMembers(m)

\* C13: fire and push_members are fire-and-forget: the call only spawns a
\* dispatch unit, it acquires no lock and waits for no append or delivery, it
\* can be made in every state, and a dispatch that fails later changes nothing
\* but its own unit.
C13_FireAndForget == []CallNeverWaits /\ [][SpawnOnly /\ FailureStaysInUnit]_vars

\* Two calls have returned: the roster read of the first failed, the event of
\* the second was stored and published to a mailbox without a group.
C13_Witness ==
    /\ Len(units) = 2
    /\ units[1].kind = "members" /\ units[1].pc = "failed"
    /\ units[2].kind = "fire" /\ units[2].pc = "done"
    /\ units[2].mailbox \notin DOMAIN broadcast_table
    /\ \A s \in Subscribers : Stream(s) = <<>>

\* ----------------------------------------------------- append before publish
Contains(seq, x) == \E j \in 1..Len(seq) : seq[j] = x

\* C14: a fired event that is on a subscriber's stream is already in the
\* history of its mailbox, or a preview with the same preview id and sender
\* that took the write lock later has overwritten it; a backlog read from 0
\* returns the encoding of that entry, and while the event itself is stored
\* every backlog read from a time up to its timestamp returns it.
C14_StoredBeforeReceived ==
    \A s \in Subscribers : \A k \in 1..Len(Stream(s)) :
        LET e == Stream(s)[k]
        IN  (e # Lagged /\ units[e.id].kind = "fire") =>
                LET m == e.event.mailbox
                    h == IF m \in DOMAIN event_map THEN event_map[m] ELSE <<>>
                    here == {i \in 1..Len(h) : h[i] = e}
                    over == {i \in 1..Len(h) :
                                /\ IsPreview(e) /\ IsPreview(h[i])
                                /\ PreviewId(h[i].event.body) = PreviewId(e.event.body)
                                /\ h[i].id \notin pushed
                                /\ LockPos(h[i].id) > LockPos(e.id)}
                IN  /\ here \cup over # {}
                    /\ \A i \in here \cup over :
                          Contains(GetFromCache(event_map, m, 0), h[i].encoded)
                    /\ here # {} =>
                          \A after \in 0..e.event.timestamp :
                              Contains(GetFromCache(event_map, m, after), e.encoded)

\* A subscriber received the preview of unit 1 live, and the history holds the
\* preview of unit 2, which has overwritten it.
C14_Witness ==
    \E s \in Subscribers :
        /\ Len(units) = 2
        /\ received[s] = <<units[1].sync>>
        /\ IsPreview(units[1].sync)
        /\ 2 \notin pushed
        /\ event_map[units[1].mailbox] = <<units[2].sync>>

\* ------------------------------------------------- snapshots and the history
IsSnapshot(e) == e.event.body.type \in {"MEMBERS", "HEARTBEAT_MAP"}

\* C15 (amended): the producers that call fire have their event inserted and
\* then published; push_members and push_heartbeat_map publish their event
\* without inserting it: no history holds a Members or HeartbeatMap event, every
\* entry was written by a unit spawned by fire, and the backlog from 0 of a
\* mailbox never returns a snapshot that was published to it.
C15_SnapshotsBypassHistory ==
    /\ \A m \in DOMAIN event_map : \A i \in 1..Len(event_map[m]) :
          ~IsSnapshot(event_map[m][i]) /\ units[event_map[m][i].id].kind = "fire"
    /\ \A u \in 1..Len(units) :
          /\ (units[u].kind = "fire" /\ units[u].pc \in {"locked", "done"}) =>
                 Contains(lockOrder, u)
          /\ (units[u].kind # "fire" /\ units[u].pc = "done") =>
                 ~Contains(GetFromCache(event_map, units[u].mailbox, 0),
                           units[u].sync.encoded)

\* C15 as stated: after push_heartbeat_map or a successful push_members has
\* completed, the backlog from 0 holds its event.
C15_Original ==
    \A u \in 1..Len(units) :
        (units[u].kind # "fire" /\ units[u].pc = "done") =>
            Contains(GetFromCache(event_map, units[u].mailbox, 0), units[u].sync.encoded)

\* A subscriber received a members snapshot and a heartbeat snapshot, both
\* producers have completed, and the mailbox has no history.
C15_Witness ==
    \E s \in Subscribers :
        /\ Len(received[s]) = 2
        /\ received[s][1] # Lagged /\ received[s][2] # Lagged
        /\ {received[s][1].event.body, received[s][2].event.body} = {Members, HeartbeatMap}
        /\ \A u \in 1..Len(units) : units[u].pc = "done"
        /\ sub[s] \notin DOMAIN event_map

\* ------------------------------------------------ the heartbeat snapshot call
\* The step of a call to push_heartbeat_map: the caller has built and encoded
\* the event and has sent nothing yet.
CallerBuilds ==
    (Len(units') = Len(units) + 1 /\ Last(units').kind = "hbmap") =>
        /\ Last(units').pc = "built"
        /\ Last(units').sync =
              SyncEventNew(Len(units'), Event(Last(units').mailbox, now', HeartbeatMap))
        /\ busVars' = busVars
        /\ logVars' = logVars

\* The caller inside push_heartbeat_map can send exactly when the registry's
\* write lock is free, whoever holds the EventLog lock and however full the
\* subscribers' buffers are; it never enters the EventLog.
WaitsForRegistryOnly ==
    \A u \in 1..Len(units) :
        units[u].kind = "hbmap" =>
            /\ ~Contains(lockOrder, u)
            /\ units[u].pc = "built" => (ENABLED SendDirect(u) <=> tableLock = "free")

\* C16 (amended): push_heartbeat_map is not detached: its caller builds the
\* event and performs the send itself; it waits for the registry lock while
\* the idle sweep holds it for writing, and for nothing else: not for the
\* EventLog lock, not for a subscriber.
C16_CallerSendsItself == []WaitsForRegistryOnly /\ [][CallerBuilds]_vars

\* C16 as stated: the caller of push_heartbeat_map is never made to wait for
\* the registry lock.
C16_Original ==
    \A u \in 1..Len(units) :
        (units[u].kind = "hbmap" /\ units[u].pc = "built") => ENABLED SendDirect(u)

\* The caller of push_heartbeat_map is waiting: the sweep holds the registry's
\* write lock, while a fired event's unit holds the EventLog lock.
C16_Witness ==
    /\ Len(units) = 2
    /\ units[1].kind = "fire" /\ logLock = 1
    /\ units[2].kind = "hbmap" /\ units[2].pc = "built"
    /\ tableLock = "janitor"

\* ------------------------------------------------ members snapshot failures
\* The step in which the roster read of unit u fails: the unit is marked and
\* nothing else changes.
FailureIsSilent ==
    \A u \in 1..Len(units) :
        (units[u].kind = "members" /\ units[u].pc # "failed" /\ units'[u].pc = "failed") =>
            /\ units' = [units EXCEPT ![u].pc = "failed"]
            /\ event_map' = event_map
            /\ broadcast_table' = broadcast_table
            /\ heartbeat_map' = heartbeat_map
            /\ inbox' = inbox /\ lagged' = lagged /\ received' = received

\* A unit that has failed takes no further step.
NoRetry ==
    \A u \in 1..Len(units) : units[u].pc = "failed" => units'[u] = units[u]

\* A unit that has failed has built no event, and no stream or history holds one
\* of its.
NothingPublished ==
    \A u \in 1..Len(units) :
        units[u].pc = "failed" =>
            /\ units[u].sync = NoEvent
            /\ \A s \in Subscribers : \A k \in 1..Len(Stream(s)) : Stream(s)[k].id # u
            /\ \A m \in DOMAIN event_map : \A i \in 1..Len(event_map[m]) :
                  event_map[m][i].id # u

\* C17: when the roster read inside push_members fails, no Members event is
\* published or stored, there is no retry, and the registry, the histories, the
\* heartbeat map and the subscribers' streams are left as they were; the
\* caller, which returned at the spawn, can go on calling.
C17_MembersFailureSilent ==
    /\ []NothingPublished
    /\ [](budget > 0 => \A m \in Mailboxes : ENABLED PushMembers(m))
    /\ [][FailureIsSilent /\ NoRetry]_vars

\* The roster read for m1 failed while m1 has a subscriber, a history and a
\* heartbeat entry: the subscriber's stream holds the fired event only.
C17_Witness ==
    \E u \in 1..Len(units) :
        /\ units[u].kind = "members" /\ units[u].pc = "failed"
        /\ units[u].mailbox = LogMailbox
        /\ sub["s1"] = LogMailbox /\ subAt["s1"] = 0
        /\ LogMailbox \in DOMAIN event_map
        /\ Ids(Stream("s1")) = Ids(event_map[LogMailbox])
        /\ LogMailbox \in DOMAIN heartbeat_map

\* -------------------------------------------------------------- heartbeats
\* The step in which unit u writes its heartbeat.
Beats(u) == units[u].kind = "heartbeat" /\ units[u].pc = "timed" /\ units'[u].pc = "done"

UsersOf(map, mailbox) == IF mailbox \in DOMAIN map THEN DOMAIN map[mailbox] ELSE {}

\* The write of a heartbeat sets the entry of its user in its mailbox to the
\* time the call read, creates the mailbox's map if absent, and changes no
\* other entry.
UpsertStep ==
    \A u \in 1..Len(units) :
        Beats(u) =>
            LET m == units[u].mailbox
                user == units[u].body.user_id
            IN  /\ DOMAIN heartbeat_map' = DOMAIN heartbeat_map \cup {m}
                /\ DOMAIN heartbeat_map'[m] = UsersOf(heartbeat_map, m) \cup {user}
                /\ heartbeat_map'[m][user] = units[u].body.now
                /\ \A m2 \in DOMAIN heartbeat_map : \A u2 \in DOMAIN heartbeat_map[m2] :
                      (m2 # m \/ u2 # user) =>
                          /\ u2 \in DOMAIN heartbeat_map'[m2]
                          /\ heartbeat_map'[m2][u2] = heartbeat_map[m2][u2]
                /\ \A m2 \in DOMAIN heartbeat_map : m2 # m =>
                      heartbeat_map'[m2] = heartbeat_map[m2]

\* No step removes a mailbox's map or a user's entry, and only a heartbeat
\* changes the map at all.
NeverRemoved ==
    /\ \A m \in DOMAIN heartbeat_map :
          m \in DOMAIN heartbeat_map' /\ DOMAIN heartbeat_map[m] \subseteq DOMAIN heartbeat_map'[m]
    /\ heartbeat_map' # heartbeat_map => \E u \in 1..Len(units) : Beats(u)

\* The call reads the current time.
ReadsClock ==
    (Len(units') = Len(units) + 1 /\ Last(units').kind = "heartbeat") =>
        Last(units').body.now = now' /\ heartbeat_map' = heartbeat_map

\* C18: heartbeat(M, U) is an upsert: it sets U's entry in M's map to the time
\* it read, creating M's map if absent, and leaves every other user's entry
\* and every other mailbox's map unchanged; a repeated heartbeat replaces the
\* value; no step removes an entry; no entry is later than the clock.
C18_HeartbeatUpsert ==
    /\ [](\A m \in DOMAIN heartbeat_map : \A user \in DOMAIN heartbeat_map[m] :
             heartbeat_map[m][user] <= now)
    /\ [][UpsertStep /\ NeverRemoved /\ ReadsClock]_vars

\* Three heartbeats to m1, by u1, u2 and u1 again: the map of m1 holds both
\* users, u1 with the later time, and m2 has no map.
C18_Witness ==
    /\ Len(units) = 3
    /\ \A u \in 1..3 :
          units[u].kind = "heartbeat" /\ units[u].mailbox = "m1" /\ units[u].pc = "done"
    /\ units[1].body.user_id = "u1" /\ units[2].body.user_id = "u2"
    /\ units[3].body.user_id = "u1"
    /\ DOMAIN heartbeat_map = {"m1"}
    /\ DOMAIN heartbeat_map["m1"] = {"u1", "u2"}
    /\ heartbeat_map["m1"]["u1"] = 1 /\ heartbeat_map["m1"]["u2"] = 0

\* ------------------------------------------------------------------ pruning
\* C19: at every tick of the 12-hour timer a prune pass runs that deletes, for
\* every mailbox key of the store, the entries older than now - 24h. The clock
\* of the model is a lower bound of the time of the tick, so the pass would
\* leave no entry stamped before now - 24h.
C19_PruneOnSchedule ==
    [][ticks' = ticks + 1 =>
          \A k \in DOMAIN store' :
              MatchesMailbox(k) => \A e \in store'[k] : e >= now' - 24 * 60 * 60 * 1000]_vars

\* The keys of a sequence of requests or of keys.
Range(seq) == {seq[i] : i \in 1..Len(seq)}

\* The pass starts: every mailbox key of the store is enumerated once, no other
\* key is, and the cutoff is the time read minus 24 hours.
PassStarts ==
    (clean.pc = "idle" /\ clean'.pc = "clearing") =>
        /\ clean'.before = now' - 24 * 60 * 60 * 1000
        /\ Range(clean'.keys) = {k \in DOMAIN store : k[1] = "mailbox"}
        /\ Len(clean'.keys) = Cardinality(Range(clean'.keys))
        /\ clean'.requested = <<>>
        /\ store' = store

\* One request of the pass: for the next key, with the cutoff of the pass; if
\* it succeeds exactly the entries stamped before the cutoff are gone, so an
\* entry of 25 hours ago is deleted and one of 1 hour ago is kept; if it fails
\* nothing is deleted; no other key is touched.
RequestStep ==
    Len(clean'.requested) = Len(clean.requested) + 1 =>
        LET r == Last(clean'.requested)
            read == clean.before + 24 * 60 * 60 * 1000
        IN  /\ r.key = Head(clean.keys)
            /\ r.before = clean.before
            /\ clean'.before = clean.before
            /\ DOMAIN store' = DOMAIN store
            /\ \A k \in DOMAIN store : k # r.key => store'[k] = store[k]
            /\ r.ok =>
                  /\ store'[r.key] = {e \in store[r.key] : ~(e < clean.before)}
                  /\ \A e \in store[r.key] :
                        /\ e <= read - 25 * Hour => e \notin store'[r.key]
                        /\ e >= read - Hour => e \in store'[r.key]
            /\ ~r.ok => store' = store

\* A pass that has returned Ok has made one request for every mailbox key, all
\* with the one cutoff, and the keys it cleared hold no entry before it.
PassComplete ==
    clean.pc = "done" =>
        /\ {r.key : r \in Range(clean.requested)} = {k \in DOMAIN store : k[1] = "mailbox"}
        /\ Len(clean.requested) = Cardinality({r.key : r \in Range(clean.requested)})
        /\ \A r \in Range(clean.requested) :
              /\ r.before = clean.before
              /\ r.ok => \A e \in store[r.key] : e >= clean.before

\* C20: one prune pass computes a single cutoff, the time it reads minus
\* 24*60*60*1000 ms, and for each enumerated mailbox key requests the deletion
\* of exactly the entries stamped before it; keys that are no mailbox keys are
\* not touched.
C20_PruneCutoff ==
    /\ []PassComplete
    /\ [][PassStarts /\ RequestStep
            /\ \A k \in DOMAIN store : k[1] # "mailbox" => store'[k] = store[k]]_vars

\* A pass over two mailbox keys has returned: the first request succeeded and
\* left the entry of an hour ago, the second failed and its key still holds an
\* entry of 25 hours ago.
C20_Witness ==
    /\ clean.pc = "done"
    /\ Len(clean.requested) = 2
    /\ clean.requested[1].ok /\ store[clean.requested[1].key] = {0 - Hour}
    /\ ~clean.requested[2].ok /\ (0 - 25 * Hour) \in store[clean.requested[2].key]

\* ------------------------------------------------------- janitor failures
\* A deletion that fails deletes nothing and the pass goes on with the next
\* key.
FailureSkipsKey ==
    (Len(clean'.requested) = Len(clean.requested) + 1 /\ ~Last(clean'.requested).ok) =>
        /\ store' = store
        /\ clean'.pc = "clearing"
        /\ clean'.keys = Tail(clean.keys)

\* While the pass runs, the keys it has requested and the keys it still has
\* to request are together the mailbox keys of the store, and it can take its
\* next step.
RemainingKeysProcessed ==
    clean.pc = "clearing" =>
        /\ {r.key : r \in Range(clean.requested)} \cup Range(clean.keys)
              = {k \in DOMAIN store : k[1] = "mailbox"}
        /\ ENABLED ClearNext \/ ENABLED CleanFinish

\* Whatever has failed, the next tick of either timer can be taken.
TicksNeverStop ==
    /\ ENABLED Sweep
    /\ ticks < MaxTicks => ENABLED PruneTick

\* C21: a deletion that fails for one key is skipped and the pass still
\* processes every remaining key; no failure, not of one key and not of the
\* whole pass, stops the later ticks of the idle sweep or of the prune timer.
C21_FailureIsolated ==
    /\ [](RemainingKeysProcessed /\ TicksNeverStop)
    /\ [][FailureSkipsKey]_vars

\* A pass whose first deletion failed went on to clear the second key, and
\* both timers ticked afterwards: a sweep removed an idle group.
C21_Witness ==
    /\ clean.pc = "done"
    /\ Len(clean.requested) = 2
    /\ ~clean.requested[1].ok /\ clean.requested[2].ok
    /\ ticks = 1
    /\ swept.removed # {}

\* ------------------------------------------------------ readers and writers
\* The write lock of the EventLog is held by exactly the unit that has
\* inserted and has not finished its send.
HeldWhileDispatching ==
    /\ logLock # 0 => units[logLock].kind = "fire" /\ units[logLock].pc = "locked"
    /\ \A u \in 1..Len(units) : units[u].pc = "locked" => logLock = u

\* C22 (amended): the EventLog has one lock for all mailboxes: while a
\* dispatch unit holds it for writing, from its insertion until its send has
\* returned, a backlog read of any mailbox waits, also of a mailbox the unit
\* does not write to; when no unit holds it no backlog read waits.
C22_OneLockForAllMailboxes ==
    /\ HeldWhileDispatching
    /\ budget > 0 =>
          \A m \in Mailboxes : \A after \in 0..(MaxTime + 1) :
              ENABLED Backlog(m, after) <=> logLock = 0

\* C22 as stated: a backlog read of a mailbox other than the one a dispatch
\* unit is writing to is never made to wait.
C22_Original ==
    (budget > 0 /\ logLock # 0) =>
        \A m \in Mailboxes \ {units[logLock].mailbox} : \A after \in 0..(MaxTime + 1) :
            ENABLED Backlog(m, after)

\* A unit holds the write lock for m1 while a subscriber of m2 may still call
\* a backlog read.
C22_Witness ==
    /\ logLock # 0
    /\ units[logLock].mailbox = "m1"
    /\ budget > 0
    /\ sub["s1"] = "m2"

\* ------------------------------------------ dispatch order and call order
\* fire returns as soon as the unit is spawned: the unit exists, nothing of it
\* has run, and the caller may fire again.
ReturnsAtSpawn ==
    \A u \in 1..Len(units) :
        (units[u].kind = "fire" /\ units[u].pc = "spawned") =>
            /\ units[u].sync = NoEvent
            /\ u \notin Range(lockOrder)
            /\ ENABLED Build(u)

\* A built unit takes the write lock whenever it is free, whatever the state of
\* the units spawned before it.
AnyBuiltUnitMayLock ==
    \A u \in 1..Len(units) :
        (units[u].kind = "fire" /\ units[u].pc = "built" /\ logLock = 0) =>
            ENABLED AppendEvent(u)

\* C23: dispatch order is not bound to call order. fire returns at the spawn,
\* each unit reads its timestamp when it is scheduled, and the write lock goes
\* to whichever built unit asks for it while it is free, so a unit spawned
\* later may be stored and delivered before a unit spawned earlier.
C23_DispatchFreeOfCallOrder == ReturnsAtSpawn /\ AnyBuiltUnitMayLock

\* fire(A) returned before fire(B) was called, both for mailbox m1, A carries
\* the smaller timestamp, and B is before A in the history and on the stream of
\* a subscriber.
C23_Witness ==
    /\ Len(units) = 2
    /\ \A u \in {1, 2} : /\ units[u].kind = "fire"
                         /\ units[u].mailbox = "m1"
                         /\ units[u].body = NewMessage
                         /\ units[u].pc = "done"
    /\ units[1].sync.event.timestamp < units[2].sync.event.timestamp
    /\ "m1" \in DOMAIN event_map
    /\ Ids(event_map["m1"]) = <<2, 1>>
    /\ \E s \in Subscribers : sub[s] = "m1" /\ Ids(received[s]) = <<2, 1>>

\* ------------------------------------------------------ one message end to end
\* How many times the event of unit u is on the stream of subscriber s.
Copies(s, u) ==
    Cardinality({k \in 1..Len(Stream(s)) : Stream(s)[k] # Lagged /\ Stream(s)[k].id = u})

\* The units that address the mailbox.
UnitsOf(mailbox) == {v \in 1..Len(units) : units[v].mailbox = mailbox}

\* A published NewMessage reaches a subscriber connected since before the fire
\* at most once, exactly once if its receiver never lagged, and as the whole
\* stream when it is the only event of the mailbox.
ReceivedOnce ==
    \A u \in 1..Len(units) : \A s \in Subscribers :
        (/\ units[u].kind = "fire" /\ units[u].body = NewMessage /\ units[u].pc = "done"
         /\ sub[s] = units[u].mailbox /\ subAt[s] < u) =>
            /\ Copies(s, u) <= 1
            /\ ~EverLagged(s) => Copies(s, u) = 1
            /\ UnitsOf(units[u].mailbox) = {u} => Stream(s) = <<units[u].sync>>

\* A stored NewMessage with timestamp t is in every backlog read from a time up
\* to t; a read from a later time is empty when it is the only entry.
BacklogAround ==
    \A u \in 1..Len(units) :
        (/\ units[u].kind = "fire" /\ units[u].body = NewMessage
         /\ units[u].pc \in {"locked", "done"}) =>
            LET m == units[u].mailbox
                e == units[u].sync
            IN  /\ \A after \in 0..e.event.timestamp :
                      Contains(GetFromCache(event_map, m, after), e.encoded)
                /\ event_map[m] = <<e>> =>
                      \A after \in (e.event.timestamp + 1)..(MaxTime + 1) :
                          GetFromCache(event_map, m, after) = <<>>

\* A backlog reply is the read of the history at the time of the call.
ReplyIsRead ==
    [][\A m \in Mailboxes, after \in 0..(MaxTime + 1) :
          Backlog(m, after) => reply'.result = GetFromCache(event_map, m, after)]_vars

\* C24: a NewMessage fired with timestamp t to a mailbox with a connected
\* subscriber is received by that subscriber exactly once, is contained in every
\* backlog read from a time up to t, and a backlog read from a time after t is
\* empty when it is the only entry of the history.
C24_EndToEnd == [](ReceivedOnce /\ BacklogAround) /\ ReplyIsRead

\* One message was fired to m1 while s1 was subscribed: s1 has received it once
\* and a backlog read from after its timestamp has returned nothing.
C24_Witness ==
    /\ Len(units) = 1
    /\ units[1].kind = "fire" /\ units[1].body = NewMessage /\ units[1].pc = "done"
    /\ units[1].mailbox = "m1"
    /\ sub["s1"] = "m1" /\ subAt["s1"] = 0
    /\ received["s1"] = <<units[1].sync>>
    /\ event_map["m1"] = <<units[1].sync>>
    /\ reply # NoReply
    /\ reply.mailbox = "m1" /\ reply.after > units[1].sync.event.timestamp
    /\ reply.result = <<>>

\* ------------------------------------------------ whispers and the event stream
\* The rows carried by the NewMessage and MessageEdited events fired so far.
Carried ==
    {units[u].body.message :
        u \in {v \in 1..Len(units) :
                  units[v].body.type \in {"NEW_MESSAGE", "MESSAGE_EDITED"}}}

\* C25: every row carried by a NewMessage or MessageEdited event that a message
\* handler fired has been passed through hide: if whisper_to_users is set, even
\* to an empty list, its text and entities are empty and its seed is zeroed.
C25_WhisperNeverFired ==
    \A message \in Carried :
        /\ message = Hide(message)
        /\ message.whisper_to_users # None =>
              /\ message.text = ""
              /\ message.entities = <<>>
              /\ message.seed = <<0, 0, 0, 0>>

\* ------------------------------------------- message handlers and their events
MessageHandlers ==
    {"messages/send", "messages/edit", "messages/move", "messages/delete",
     "messages/toggle_fold"}

\* The event type each message handler fires.
EventOf(handler) ==
    IF handler = "messages/send" THEN "NEW_MESSAGE"
    ELSE IF handler = "messages/delete" THEN "MESSAGE_DELETED"
    ELSE "MESSAGE_EDITED"

\* The id of the row an event of a message handler is about.
RowOf(body) == IF body.type = "MESSAGE_DELETED" THEN body.message_id ELSE body.message.id

\* The event tells what the database holds once the handler has returned.
Committed(body, database) ==
    /\ RowOf(body) \in 1..Len(database.messages)
    /\ IF body.type = "MESSAGE_DELETED" THEN database.messages[RowOf(body)].deleted
       ELSE /\ ~database.messages[RowOf(body)].deleted
            /\ Hide(body.message) = Hide(database.messages[RowOf(body)])

\* A request that mutates: every send, delete and toggle_fold.
Mutates(handler) == handler \in {"messages/send", "messages/delete", "messages/toggle_fold"}

\* C29: a message handler that returns Ok has fired exactly one event, of its
\* own type, to the mailbox that is the row's channel_id, and the database
\* holds the mutation the event tells of; a message handler that returns an
\* error has fired nothing and has left the database as it was.
C29_NotifyAfterSuccess ==
    [][(budget' < budget /\ response'.handler \in MessageHandlers) =>
          IF response'.status = "ok"
          THEN /\ Len(units') = Len(units) + 1
               /\ SubSeq(units', 1, Len(units)) = units
               /\ LET unit == units'[Len(units')]
                  IN  /\ unit.kind = "fire"
                      /\ unit.body.type = EventOf(response'.handler)
                      /\ Committed(unit.body, db')
                      /\ unit.mailbox = db'.messages[RowOf(unit.body)].channel_id
               /\ Mutates(response'.handler) => db' # db
          ELSE units' = units /\ db' = db]_vars

\* A send has succeeded and fired its event; then an edit has failed with a
\* database error and fired nothing: there is one event and both rows are as sent.
C29_Witness ==
    /\ budget = 0
    /\ response.handler = "messages/edit" /\ response.status = "Database"
    /\ Len(units) = 1
    /\ units[1].body.type = "NEW_MESSAGE"
    /\ units[1].mailbox = "m1"
    /\ Len(db.messages) = 2
    /\ \A i \in 1..2 : db.messages[i].text = "hello"

\* ------------------------------------------- channel handlers and their events
ChannelHandlers == {"channels/edit", "channels/join", "channels/leave", "channels/delete"}

\* What a channel handler that returns Ok spawns: a dispatch unit with the
\* ChannelEdited or ChannelDeleted body, or a members snapshot.
Notifies(handler, unit) ==
    IF handler = "channels/edit"
    THEN unit.kind = "fire" /\ unit.body.type = "CHANNEL_EDITED"
    ELSE IF handler = "channels/delete"
    THEN unit.kind = "fire" /\ unit.body.type = "CHANNEL_DELETED"
    ELSE unit.kind = "members" /\ unit.body = Members

\* C30: a channel handler that returns Ok has notified the channel's mailbox:
\* edit has committed the new name and fired ChannelEdited, delete has fired
\* ChannelDeleted, join and leave have pushed a members snapshot.
C30_ChannelHandlersNotify ==
    [][(budget' < budget /\ response'.handler \in ChannelHandlers
        /\ response'.status = "ok") =>
          /\ Len(units') = Len(units) + 1
          /\ Notifies(response'.handler, units'[Len(units')])
          /\ units'[Len(units')].mailbox \in DOMAIN db.channels
          /\ response'.handler = "channels/edit" =>
                db'.channels[units'[Len(units')].mailbox] = "lobby"]_vars

\* ------------------------------------------------------ eventual reclamation
Idle(m) == m \in DOMAIN broadcast_table /\ ReceiverCount(broadcast_table, m) = 0

\* A sweep tick removes every entry that is idle when it runs.
SweepRemovesIdle ==
    [][Sweep => \A m \in Mailboxes : Idle(m) => m \notin DOMAIN broadcast_table']_vars

\* An idle entry is eventually absent, unless a subscriber comes back to it.
EventuallyAbsent ==
    \A m \in Mailboxes : Idle(m) ~> (m \notin DOMAIN broadcast_table \/ ~Idle(m))

\* C26: both timers keep ticking whatever the state of the prune pass, a sweep
\* tick removes the entries that are idle, and so an entry that stays without
\* subscribers is eventually absent.
C26_IdleReclaimedEventually ==
    /\ [](ENABLED Sweep /\ (ticks < MaxTicks => ENABLED PruneTick))
    /\ SweepRemovesIdle
    /\ EventuallyAbsent

\* A sweep has removed the idle entry m1, and a prune pass that has started is
\* still clearing.
C26_Witness ==
    /\ clean.pc = "clearing"
    /\ swept.removed = {"m1"}
    /\ "m1" \notin DOMAIN broadcast_table
    /\ sub["s1"] = NoMailbox

\* ------------------------------------------------- heartbeat fires no event
\* The steps of a heartbeat call: the call reads the clock, then writes.
HeartbeatCalled == Len(units') = Len(units) + 1 /\ Last(units').kind = "heartbeat"

\* Both steps leave every history, the EventLog's lock and order, the registry,
\* every receiver's buffer and every stream as they were.
HeartbeatFrame ==
    (HeartbeatCalled \/ \E u \in 1..Len(units) : Beats(u)) =>
        /\ UNCHANGED <<event_map, logLock, lockOrder, pushed>>
        /\ UNCHANGED <<broadcast_table, sub, subAt, inbox, lagged, received>>
        /\ UNCHANGED <<tableLock, store, reply>>

\* A heartbeat call never becomes a dispatch unit: it builds no event, takes no
\* EventLog lock, and nothing on a stream or in a history comes from it.
HeartbeatBuildsNothing ==
    \A u \in 1..Len(units) :
        units[u].kind = "heartbeat" =>
            /\ units[u].sync = NoEvent
            /\ units[u].pc \in {"timed", "done"}
            /\ u \notin Range(lockOrder)
            /\ \A s \in Subscribers : Copies(s, u) = 0
            /\ \A m \in DOMAIN event_map : \A i \in 1..Len(event_map[m]) :
                  event_map[m][i].id # u

\* C27: a call heartbeat(M, U) changes only the heartbeat map: it leaves every
\* mailbox's history and the registry unchanged and delivers nothing to any
\* subscriber.
C27_HeartbeatSilent == []HeartbeatBuildsNothing /\ [][HeartbeatFrame]_vars

\* s1 is subscribed to m1 and has the one message fired to it; a heartbeat for
\* m1 has then been written, and the stream and the history still hold that
\* message only.
C27_Witness ==
    /\ Len(units) = 2
    /\ units[1].kind = "fire" /\ units[1].pc = "done"
    /\ units[2].kind = "heartbeat" /\ units[2].pc = "done" /\ units[2].mailbox = "m1"
    /\ sub["s1"] = "m1"
    /\ Stream("s1") = <<units[1].sync>>
    /\ event_map["m1"] = <<units[1].sync>>
    /\ "m1" \in DOMAIN heartbeat_map

\* ----------------------------------------------------- the history only grows
HistoryLen(map, m) == IF m \in DOMAIN map THEN Len(map[m]) ELSE 0

\* No step removes a mailbox from the EventLog or shortens a history, and an
\* entry changes only when a preview of the same id and sender overwrites it.
NothingRemoved ==
    \A m \in DOMAIN event_map :
        /\ m \in DOMAIN event_map'
        /\ Len(event_map'[m]) >= Len(event_map[m])
        /\ \A i \in 1..Len(event_map[m]) :
              \/ event_map'[m][i] = event_map[m][i]
              \/ /\ IsPreview(event_map[m][i]) /\ IsPreview(event_map'[m][i])
                 /\ PreviewId(event_map'[m][i].event.body) = PreviewId(event_map[m][i].event.body)
                 /\ Len(event_map'[m]) = Len(event_map[m])

\* The insertion of a dispatch unit adds one entry to its mailbox's history, or
\* none when a preview overwrites; it leaves the other histories alone.
GrowsByFire ==
    \A u \in 1..Len(units) :
        Inserts(u) =>
            LET m == units[u].mailbox
                grown == HistoryLen(event_map', m) - HistoryLen(event_map, m)
            IN  /\ IF units[u].body.type = "MESSAGE_PREVIEW" THEN grown \in {0, 1}
                   ELSE grown = 1
                /\ \A m2 \in Mailboxes \ {m} :
                      HistoryLen(event_map', m2) = HistoryLen(event_map, m2)
                /\ DOMAIN event_map' = DOMAIN event_map \cup {m}

\* Every other step leaves the EventLog as it was.
OnlyFireWrites ==
    (\A u \in 1..Len(units) : ~Inserts(u)) => event_map' = event_map

\* C28: the in-process history only grows. No operation removes a mailbox from
\* the EventLog or an entry from a history; a non-preview fire makes its
\* mailbox's history longer by exactly one, a preview fire by one or, on
\* overwrite, by none; every other operation leaves the histories unchanged.
C28_HistoryOnlyGrows == [][NothingRemoved /\ GrowsByFire /\ OnlyFireWrites]_vars

\* Two previews with the same id and sender were fired to m1: the second has
\* overwritten the first, and the history has one entry.
C28_Witness ==
    /\ Len(units) = 2
    /\ \A u \in {1, 2} : units[u].pc = "done" /\ IsPreview(units[u].sync)
                         /\ units[u].mailbox = "m1"
    /\ Len(event_map["m1"]) = 1
    /\ Len(lockOrder) = 2
    /\ event_map["m1"][1].id = lockOrder[2]
    /\ budget = 0

\* --------------------------------------------------------------- admin_only
IsSpaceAdmin(user_id) == user_id \in db.space /\ user_id \in db.admins

\* admin_only returns Ok exactly for the members of the space that are admins.
AdminOnlyExact == \A user_id \in Users : AdminOnly(user_id) = "ok" <=> IsSpaceAdmin(user_id)

\* C31: admin_only grants access to admins only: it returns Ok exactly for
\* the members of the space that are admins, so a channel is deleted, and
\* ChannelDeleted fired, only on the request of a space admin, and a requester
\* who is not the owner creates a channel only if they are a space admin.
C31_AdminsOnly ==
    [][(budget' < budget /\ response'.status = "ok"
        /\ response'.handler \in {"channels/delete", "channels/create"}) =>
          /\ AdminOnlyExact
          /\ response'.handler = "channels/delete" =>
                /\ IsSpaceAdmin(response'.session)
                /\ Last(units').body = ChannelDeleted
          /\ (response'.handler = "channels/create" /\ response'.session # db.owner) =>
                IsSpaceAdmin(response'.session)]_vars

\* ------------------------------------------------ the locks never close a cycle
\* A task that has something left to do.
Pending(u) == units[u].pc \in {"spawned", "built", "locked", "timed"}

\* The step a pending task takes next.
Step(u) ==
    \/ Build(u) \/ FetchMembers(u) \/ AppendEvent(u) \/ Publish(u)
    \/ SendDirect(u) \/ HeartbeatInsert(u)

\* The holder of the registry lock asks for no other lock; the holder of the
\* EventLog lock asks for the registry lock only; a heartbeat call asks for
\* the heartbeat lock only and holds nothing else with it.
LockOrder ==
    /\ tableLock = "janitor" => ENABLED SweepEnd
    /\ logLock # 0 =>
          /\ units[logLock].kind = "fire" /\ units[logLock].pc = "locked"
          /\ ENABLED Publish(logLock) <=> tableLock = "free"
    /\ \A u \in 1..Len(units) :
          /\ units[u].kind \in {"members", "hbmap"} => ~Contains(lockOrder, u)
          /\ units[u].kind = "heartbeat" =>
                /\ ~Contains(lockOrder, u)
                /\ units[u].pc = "timed" => ENABLED HeartbeatInsert(u)

\* Whenever a lock is held, its holder can go on or the holder of the lock it
\* waits for can; whenever a task is pending, some task can take a step.
NoCircularWait ==
    /\ logLock # 0 => ENABLED Publish(logLock) \/ ENABLED SweepEnd
    /\ (\E u \in 1..Len(units) : Pending(u)) =>
          (ENABLED SweepEnd \/ \E u \in 1..Len(units) : ENABLED Step(u))

\* C32: the three registries cannot deadlock. The EventLog lock is acquired
\* before the registry lock, no task asks for the EventLog or the heartbeat
\* lock while it holds the registry lock, and the heartbeat lock is never held
\* together with another lock; so in every state some task can proceed.
C32_NoDeadlock == LockOrder /\ NoCircularWait

\* A dispatch unit holds the EventLog lock and waits for the registry, which
\* the sweep holds for writing, while a heartbeat call is about to write.
C32_Witness ==
    /\ logLock = 1
    /\ tableLock = "janitor"
    /\ Len(units) = 2
    /\ units[2].kind = "heartbeat" /\ units[2].pc = "timed"

\* -------------------------------------------- previews of one key stay apart
\* Two entries of a history with the same preview id and sender have at least
\* 32 other entries between them.
SameKeyFarApart ==
    \A m \in DOMAIN event_map :
        \A i, j \in 1..Len(event_map[m]) :
            (/\ i < j
             /\ IsPreview(event_map[m][i]) /\ IsPreview(event_map[m][j])
             /\ PreviewId(event_map[m][i].event.body) = PreviewId(event_map[m][j].event.body))
                => j - i >= Lookback + 1

\* A preview that overwrites takes the place of the most recent entry with its
\* key, and no other entry changes.
OverwritesMostRecent ==
    \A u \in 1..Len(units) :
        (Inserts(u) /\ units[u].mailbox \in DOMAIN event_map
                    /\ Len(event_map'[units[u].mailbox]) = Len(event_map[units[u].mailbox])) =>
            LET h == event_map[units[u].mailbox]
                SameKey(e) == IsPreview(e) /\ PreviewId(e.event.body) = PreviewId(units[u].body)
                p == LastPos(h, SameKey)
            IN  /\ PreviewId(units[u].body) # NoPreview
                /\ p # 0
                /\ event_map'[units[u].mailbox] = [h EXCEPT ![p] = units[u].sync]

\* C33: in every reachable state two entries of one history with the same
\* preview id and sender id are at positions that differ by at least 33, so
\* the last 32 entries never hold two of them, and an overwrite always takes
\* the most recent matching entry.
C33_SameKeyApart == [](SameKeyFarApart /\ OnePreviewPerKey) /\ [][OverwritesMostRecent]_vars

\* Two previews with the same id and sender are at positions 1 and 34 of a
\* history of 35 entries: exactly 32 entries lie between them.
C33_Witness ==
    /\ LogMailbox \in DOMAIN event_map
    /\ Len(event_map[LogMailbox]) = 35
    /\ IsPreview(event_map[LogMailbox][1]) /\ IsPreview(event_map[LogMailbox][34])
    /\ PreviewId(event_map[LogMailbox][1].event.body)
          = PreviewId(event_map[LogMailbox][34].event.body)

\* ----------------------------------------------- last-seen under concurrency
Max(S) == CHOOSE x \in S : \A y \in S : y <= x

\* The heartbeat calls for one mailbox and user.
BeatsOf(m, user_id) ==
    {u \in 1..Len(units) : /\ units[u].kind = "heartbeat"
                           /\ units[u].mailbox = m
                           /\ units[u].body.user_id = user_id}

\* A stored last-seen value stays or grows in every step.
LastSeenNeverDecreases ==
    \A m \in DOMAIN heartbeat_map : \A user_id \in DOMAIN heartbeat_map[m] :
        /\ m \in DOMAIN heartbeat_map'
        /\ user_id \in DOMAIN heartbeat_map'[m]
        /\ heartbeat_map'[m][user_id] >= heartbeat_map[m][user_id]

\* Once every heartbeat call for a mailbox and user has returned, the stored
\* value is the largest time any of them read.
LastSeenIsLargest ==
    \A m \in Mailboxes, user_id \in Users :
        (/\ BeatsOf(m, user_id) # {}
         /\ \A u \in BeatsOf(m, user_id) : units[u].pc = "done") =>
            /\ m \in DOMAIN heartbeat_map
            /\ user_id \in DOMAIN heartbeat_map[m]
            /\ heartbeat_map[m][user_id] = Max({units[u].body.now : u \in BeatsOf(m, user_id)})

\* C34: for every mailbox and user, in any interleaving of concurrent
\* heartbeat calls, the stored last-seen value never decreases, and after all
\* the calls have returned it is the largest timestamp any of them read.
C34_LastSeenMonotone == []LastSeenIsLargest /\ [][LastSeenNeverDecreases]_vars

\* ------------------------------------------------- what the idle sweep leaves
\* A step in which the idle sweep retains.
SweepRetains == swept' # NoSweep

\* C35: the idle sweep changes the registry only: every history and every
\* heartbeat map is as before, and a backlog read of any mailbox for any
\* 'after' returns the same sequence before and after the sweep, also for a
\* mailbox whose group the sweep removed.
C35_SweepTouchesRegistryOnly ==
    [][SweepRetains =>
         /\ event_map' = event_map
         /\ heartbeat_map' = heartbeat_map
         /\ \A m \in Mailboxes, after \in 0..(MaxTime + 1) :
                GetFromCache(event_map', m, after) = GetFromCache(event_map, m, after)]_vars

\* The sweep has just removed the group of a mailbox that has a history and a
\* heartbeat map.
C35_Witness ==
    /\ swept # NoSweep
    /\ LogMailbox \in swept.removed
    /\ LogMailbox \in DOMAIN event_map
    /\ Len(event_map[LogMailbox]) > 0
    /\ LogMailbox \in DOMAIN heartbeat_map

\* ------------------------------------------------- every dispatch completes
\* SpecLocks under fair scheduling: a spawned task is polled, a task waiting
\* for a lock gets it when the lock keeps becoming free (the locks queue their
\* waiters in order of arrival), and the sweep's retain returns.
FairLocks ==
    /\ \A u \in 1..MaxCalls : /\ WF_vars(u <= Len(units) /\ Build(u))
                              /\ SF_vars(u <= Len(units) /\ AppendEvent(u))
                              /\ SF_vars(u <= Len(units) /\ Publish(u))
    /\ WF_vars(SweepEnd)

SpecLocksLive == Init /\ [][NextLocks]_vars /\ FairLocks

\* A dispatch unit that has completed: its event was inserted under the write
\* lock, it was sent, and the unit holds no lock.
Completed(u) ==
    /\ units[u].pc = "done"
    /\ \E i \in 1..Len(lockOrder) : lockOrder[i] = u
    /\ logLock # u

\* C36: under fair scheduling every dispatch unit spawned by fire eventually
\* has taken the EventLog write lock, inserted its event, published it and
\* released its locks, whatever other units, backlog reads and sweeps run.
C36_EveryDispatchCompletes ==
    \A u \in 1..MaxCalls :
        (u <= Len(units) /\ units[u].kind = "fire") ~> (u <= Len(units) /\ Completed(u))

\* Two dispatch units have completed, the second spawned one first, while the
\* sweep holds the registry's write lock.
C36_Witness ==
    /\ Len(units) = 2
    /\ units[1].kind = "fire" /\ units[2].kind = "fire"
    /\ Completed(1) /\ Completed(2)
    /\ lockOrder = <<2, 1>>
    /\ tableLock = "janitor"

\* ------------------------------------- the history does not need listeners
\* The insertion of unit u puts its event into its mailbox's history as the
\* only entry of a new history, as a new last entry, or in the place of a
\* preview with its key; the other mailboxes keep what they had.
InsertsOwnEvent ==
    \A u \in 1..Len(units) :
        Inserts(u) =>
            LET m == units[u].mailbox
                e == units[u].sync
            IN  /\ m \in DOMAIN event_map'
                /\ IF m \notin DOMAIN event_map
                   THEN event_map'[m] = <<e>>
                   ELSE LET h == event_map[m]
                        IN  \/ event_map'[m] = Append(h, e)
                            \/ \E p \in 1..Len(h) :
                                  /\ IsPreview(h[p]) /\ IsPreview(e)
                                  /\ PreviewId(h[p].event.body) = PreviewId(e.event.body)
                                  /\ event_map'[m] = [h EXCEPT ![p] = e]
                /\ DOMAIN event_map' = DOMAIN event_map \cup {m}
                /\ \A other \in DOMAIN event_map \ {m} : event_map'[other] = event_map[other]

\* How many times unit u has inserted.
Insertions(u) == Cardinality({i \in 1..Len(lockOrder) : lockOrder[i] = u})

\* A unit spawned by fire has inserted once as soon as it is past its
\* insertion, and not before; a unit that has returned has inserted.
InsertsOnce ==
    \A u \in 1..Len(units) :
        units[u].kind = "fire" =>
            Insertions(u) = IF units[u].pc \in {"locked", "done"} THEN 1 ELSE 0

\* C37: every dispatch unit started by fire inserts its event into its
\* mailbox's history exactly once, as a new last entry or in the place of the
\* matching preview, whether or not the mailbox has a history, a broadcast
\* group or a subscriber; the first fire to a mailbox creates a history of
\* that one entry, and no other mailbox's history changes.
C37_HistoryWithoutListeners == []InsertsOnce /\ [][InsertsOwnEvent]_vars

\* A fire to m2, which has no broadcast group and had no history, has
\* completed: m2's history is that one event, and m1 has a history of its own.
C37_Witness ==
    /\ Len(units) = 2
    /\ units[1].kind = "fire" /\ units[1].mailbox = "m1" /\ units[1].pc = "done"
    /\ units[2].kind = "fire" /\ units[2].mailbox = "m2" /\ units[2].pc = "done"
    /\ "m2" \notin DOMAIN broadcast_table
    /\ sub = [s \in Subscribers |-> NoMailbox]
    /\ event_map = [m \in {"m1", "m2"} |-> IF m = "m1" THEN <<units[1].sync>>
                                           ELSE <<units[2].sync>>]

\* ------------------------------------------------------ backlog is read-only
\* A step of Event::get_from_cache.
BacklogReads == \E m \in Mailboxes, after \in 0..(MaxTime + 1) : Backlog(m, after)

\* The read changes neither the EventLog map, nor the registry, nor the
\* heartbeat map.
BacklogFrame ==
    BacklogReads => /\ event_map' = event_map
                    /\ broadcast_table' = broadcast_table
                    /\ heartbeat_map' = heartbeat_map

\* The last reply is what a read with its arguments returns now.
Current(r, map) == r.result = GetFromCache(map, r.mailbox, r.after)

\* As long as no dispatch unit inserts, the last reply stays what a read
\* returns, and a read with the same arguments returns the same sequence.
BacklogRepeatable ==
    (/\ reply # NoReply
     /\ Current(reply, event_map)
     /\ ~ \E u \in 1..Len(units) : Inserts(u)) =>
        /\ Current(reply', event_map')
        /\ (reply'.mailbox = reply.mailbox /\ reply'.after = reply.after)
              => reply'.result = reply.result

\* C38: Event::get_from_cache, for any mailbox, known or not, and any 'after',
\* leaves the EventLog map, the registry and the heartbeat map unchanged and
\* creates no entry for an unknown mailbox; two identical calls with no
\* dispatch in between return the same sequence.
C38_BacklogReadOnly == [][BacklogFrame /\ BacklogRepeatable]_vars

\* A read of m2, which has no history, has returned the empty sequence and m2
\* still has no entry, while m1 has a history and a broadcast group exists.
C38_Witness ==
    /\ reply # NoReply
    /\ reply.mailbox = "m2"
    /\ reply.result = <<>>
    /\ DOMAIN event_map = {"m1"}
    /\ DOMAIN broadcast_table # {}

\* ------------------------------------------------------- websocket sessions
\* A header value is a sequence of fragments of text; NotText is a value that
\* HeaderValue::to_str refuses.
NotText == <<"\\xff">>
UpgradeValues ==
    {None, Some(NotText), Some(<<"websocket">>), Some(<<" ", "websocket", " ">>),
     Some(<<"WebSocket">>), Some(<<"h2c">>), Some(<<"websocket", ",", "h2c">>)}
ConnectionValues ==
    {None, Some(NotText), Some(<<"Upgrade">>), Some(<<"keep-alive", ",", " ", "Upgrade">>),
     Some(<<"keep-alive">>), Some(<<"upgrade">>)}
KeyValues == {None, Some(NotText), Some(<<"k1">>), Some(<<"k2">>)}

Headers == [upgrade : UpgradeValues, connection : ConnectionValues, key : KeyValues]

\* headers.get(NAME).and_then(|v| v.to_str().ok())
ToStr(value) == IF value = None \/ value = Some(NotText) THEN None ELSE value

\* str::trim: the white space at both ends is dropped.
RECURSIVE TrimStart(_)
TrimStart(s) == IF s # <<>> /\ Head(s) = " " THEN TrimStart(Tail(s)) ELSE s

RECURSIVE TrimEnd(_)
TrimEnd(s) ==
    IF s # <<>> /\ s[Len(s)] = " " THEN TrimEnd(SubSeq(s, 1, Len(s) - 1)) ELSE s

Trim(s) == TrimEnd(TrimStart(s))

\* str::find(pattern).is_some()
Find(s, pattern) == \E i \in 1..Len(s) : s[i] = pattern

\* base64::encode(sha1(key + GUID))
Accept(key) == <<"accept">> \o key

Ok(value) == [ok |-> TRUE, value |-> value]
Err(error) == [ok |-> FALSE, error |-> error]

\* A check that does not ask for the key.
check_websocket_header_keyless(headers) ==
    LET upgrade == ToStr(headers.upgrade)
        connection == ToStr(headers.connection)
    IN  IF upgrade = None THEN Err("BadRequest")
        ELSE IF Trim(Unwrap(upgrade)) # <<"websocket">> THEN Err("BadRequest")
        ELSE IF connection = None THEN Err("BadRequest")
        ELSE IF ~Find(Unwrap(connection), "Upgrade") THEN Err("BadRequest")
        ELSE Ok(Accept(<<>>))

check_websocket_header(headers) ==
    LET upgrade == ToStr(headers.upgrade)
        connection == ToStr(headers.connection)
        key == ToStr(headers.key)
    IN  IF upgrade = None THEN Err("BadRequest")
        ELSE IF Trim(Unwrap(upgrade)) # <<"websocket">> THEN Err("BadRequest")
        ELSE IF connection = None THEN Err("BadRequest")
        ELSE IF ~Find(Unwrap(connection), "Upgrade") THEN Err("BadRequest")
        ELSE IF key = None THEN Err("BadRequest")
        ELSE Ok(Accept(Unwrap(key)))

\* The stream handed to the session handler.
WebSocketStream == [role |-> "Server"]

\* establish_web_socket: the headers are checked, the task is spawned, the
\* 101 response is returned.
establish_web_socket(headers) ==
    LET accept == check_websocket_header(headers)
    IN  IF ~accept.ok THEN Fail("websocket", NoSession, accept.error)
        ELSE Answer("websocket", NoSession, "SwitchingProtocols", db,
                    <<[kind |-> "websocket", mailbox |-> NoMailbox, body |-> headers]>>)

\* The spawned task: on_upgrade().await returns, and on Ok the handler is
\* called with the stream; on Err the failure is logged.
OnUpgrade(u) ==
    /\ units[u].kind = "websocket"
    /\ units[u].pc = "spawned"
    /\ \/ units' = [units EXCEPT ![u].pc = "handling", ![u].sync = WebSocketStream]
       \/ units' = [units EXCEPT ![u].pc = "failed"]
    /\ swept' = NoSweep
    /\ UNCHANGED auxVars
    /\ UNCHANGED <<logVars, busVars, now, budget, reply>>

\* The spawned task: handler(ws_stream).await returns.
HandlerReturns(u) ==
    /\ units[u].kind = "websocket"
    /\ units[u].pc = "handling"
    /\ units' = [units EXCEPT ![u].pc = "disconnected"]
    /\ swept' = NoSweep
    /\ UNCHANGED auxVars
    /\ UNCHANGED <<logVars, busVars, now, budget, reply>>

NextWebSocket ==
    \/ \E headers \in Headers : establish_web_socket(headers)
    \/ \E u \in 1..Len(units) : OnUpgrade(u)
    \/ \E u \in 1..Len(units) : HandlerReturns(u)

InitWebSocket ==
    /\ event_map = EmptyMap
    /\ logLock = 0
    /\ units = <<>>
    /\ lockOrder = <<>>
    /\ pushed = {}
    /\ InitBus
    /\ now = 0
    /\ budget = MaxReqs
    /\ reply = NoReply
    /\ swept = NoSweep
    /\ InitAux

SpecWebSocket == InitWebSocket /\ [][NextWebSocket]_vars

\* ---------------------------------------------------- the handler is gated
\* The cases in which the request is not a websocket handshake.
Missing(value) == value = None
BadHandshake(headers) ==
    \/ Missing(headers.upgrade)
    \/ ~Missing(headers.upgrade) /\ Trim(Unwrap(headers.upgrade)) # <<"websocket">>
    \/ Missing(headers.connection)
    \/ ~Missing(headers.connection) /\ ~Find(Unwrap(headers.connection), "Upgrade")
    \/ Missing(headers.key)

\* The session handler of task u has been called.
HandlerRan(u) == units[u].kind = "websocket" /\ units[u].sync # NoEvent

\* A task whose handler has been called was spawned for headers that passed
\* the check, and its upgrade has completed.
HandlerGated ==
    \A u \in 1..Len(units) :
        HandlerRan(u) => /\ check_websocket_header(units[u].body).ok
                         /\ ~BadHandshake(units[u].body)
                         /\ units[u].pc \in {"handling", "disconnected"}
                         /\ units[u].sync = WebSocketStream

\* A request that is not a handshake is answered with BadRequest and spawns
\* nothing.
BadHandshakeRefused ==
    \A headers \in Headers :
        (establish_web_socket(headers) /\ BadHandshake(headers)) =>
            /\ response'.status = "BadRequest"
            /\ units' = units

\* A task whose upgrade failed stays as it is: its handler is never called.
FailedUpgradeIsFinal ==
    \A u \in 1..Len(units) :
        (units[u].kind = "websocket" /\ units[u].pc = "failed") =>
            /\ units[u].sync = NoEvent
            /\ units'[u] = units[u]

\* C39: establish_web_socket runs the session handler only after
\* check_websocket_header has succeeded and the upgrade has completed; with
\* the Upgrade header missing or not websocket, the Connection header missing
\* or without Upgrade, or Sec-WebSocket-Key missing, it returns BadRequest,
\* spawns no task and never runs the handler; after a failed upgrade the
\* handler is never run.
C39_SessionGated ==
    []HandlerGated /\ [][BadHandshakeRefused /\ FailedUpgradeIsFinal]_vars

\* One handshake was accepted and its upgrade failed without the handler
\* running; a second request, without a key, was answered with BadRequest and
\* spawned nothing.
C39_Witness ==
    /\ Len(units) = 1
    /\ units[1].kind = "websocket" /\ units[1].pc = "failed" /\ units[1].sync = NoEvent
    /\ response.handler = "websocket" /\ response.status = "BadRequest"
    /\ budget = 0

====
